---- MODULE Spec2Model ----
(***************************************************************************)
(* The Data Repository of the download controller service (dcs):          *)
(* DataRepository.access_drs_object, register_new_file, delete_file,       *)
(* cleanup_outbox and serve_envelope of                                    *)
(* src/src/dcs/core/data_repository.py, each call run as a task whose      *)
(* steps are its awaited I/O calls on the DAO, the S3 outbox, the EKSS     *)
(* secret store and the event publisher; and the REST layer in front of    *)
(* it: work order tokens and the HTTP answers.                             *)
(***************************************************************************)
EXTENDS Integers, Sequences, FiniteSets, TLC

\* ------------------------------------------------------------- bounds
\* The file ids that events and requests name.
Files == {"f1", "f2"}
\* The task slots: that many requests, consumed events and sweeps may be in
\* flight at once.
Tasks == {1, 2}
\* The clock runs from 0 to MaxTime (in units of days).
MaxTime == 2
\* How many uuid4 object ids register_new_file may draw.
MaxObjects == 2

\* ------------------------------------------------------ configuration
\* ObjectStorageConfig.object_storages: the aliases with a storage node.
ConfiguredAliases == {"s1"}
\* The aliases a FileInternallyRegistered event may carry.
Aliases == {"s1", "s9"}
\* DataRepositoryConfig.retry_access_after (seconds).
RetryAccessAfter == 120
\* DataRepositoryConfig.presigned_url_expires_after (seconds).
PresignedUrlExpiresAfter == 30
\* DataRepositoryConfig.cache_timeout (days), set small so that the clock
\* reaches it.
CacheTimeout == 1

ObjectIds == 1..MaxObjects

VARIABLES
    dao,        \* DrsObjectDao: file_id -> stored AccessTimeDrsObject, or NoRow
    outbox,     \* object ids present in the outbox bucket of storage "s1"
    secrets,    \* EKSS: the files whose decryption secret exists
    now,        \* utc_dates.now_as_utc()
    nextObj,    \* the next uuid4 drawn by register_new_file
    everStaged, \* history: object ids that were ever put into the outbox
    tasks       \* per task: the call it runs, its position and its locals

vars == <<dao, outbox, secrets, now, nextObj, everStaged, tasks>>

\* The absent row (get_by_id raises ResourceNotFoundError).
NoRow == [object_id |-> 0, s3_endpoint_alias |-> "none", last_accessed |-> 0]

\* The receiver public keys an envelope may be asked for.
PublicKeys == {"k1", "k2"}

\* No envelope.
NoEnvelope == [secret_id |-> "none", receiver |-> "none"]

\* A request without an Authorization header.
NoToken ==
    [signed_by |-> "none", type |-> "none", file_id |-> "none",
     expired |-> FALSE]

\* A task that runs no call.
IdleTask ==
    [op |-> "none", file |-> "none", pc |-> "idle",
     row |-> NoRow, t0 |-> 0, inOutbox |-> "unchecked", calls |-> <<>>,
     res |-> "none", retry_after |-> 0, ekss |-> "none",
     threshold |-> 0, listed |-> {}, todo |-> {}, cur |-> 0, removed |-> {},
     key |-> "none", envelope |-> NoEnvelope,
     token |-> NoToken, auth |-> "none",
     expires_after |-> 0, size |-> 0,
     topic |-> "none", type_ |-> "none", from_error |-> "none"]

\* FileInternallyRegistered.decrypted_size of a file (bytes).
DecryptedSize(f) == IF f = "f1" THEN 10 ELSE 20

\* get_object_size: the length of the outbox object, which is the encrypted
\* file; it holds the envelope besides the content.
ObjectSize(o) == 100 + o

\* The call returns or raises: its result is what the caller sees.
Finish(T, result) == [T EXCEPT !.pc = "done", !.res = result]

\* An external call completed (or its not-found answer was suppressed): it
\* is appended to the call's own record, with the file id it was made for.
Log(T, call) ==
    [T EXCEPT !.calls = Append(@, [call |-> call, file_id |-> T.file])]

\* Task t is at position label. A call that has finished hands its result to
\* its caller before any other step is taken.
At(t, label) ==
    /\ tasks[t].pc = label
    /\ \A u \in Tasks : tasks[u].pc # "done"

\* A new call takes the first free task slot.
Free(t) ==
    /\ At(t, "idle")
    /\ \A u \in Tasks : u < t => tasks[u].pc # "idle"

Init ==
    /\ dao = [f \in Files |-> NoRow]
    /\ outbox = {}
    /\ secrets = Files
    /\ now = 0
    /\ nextObj = 1
    /\ everStaged = {}
    /\ tasks = [t \in Tasks |-> IdleTask]

\* ---------------------------------------------------------- environment
\* Time passes.
Tick ==
    /\ \A u \in Tasks : tasks[u].pc # "done"
    /\ now < MaxTime
    /\ now' = now + 1
    /\ UNCHANGED <<dao, outbox, secrets, nextObj, everStaged, tasks>>

\* The external staging worker copies an object into the outbox.
StageObject(o) ==
    /\ \A u \in Tasks : tasks[u].pc # "done"
    /\ o < nextObj
    /\ o \notin outbox
    /\ outbox' = outbox \cup {o}
    /\ everStaged' = everStaged \cup {o}
    /\ UNCHANGED <<dao, secrets, now, nextObj, tasks>>

\* The caller has taken the result; the task slot is free again.
Return(t) ==
    /\ tasks[t].pc = "done"
    /\ tasks' = [tasks EXCEPT ![t] = IdleTask]
    /\ UNCHANGED <<dao, outbox, secrets, now, nextObj, everStaged>>

\* ------------------------------------------------------ access_drs_object
\* Variant of AccessStart that, on a miss, goes on to request the staging of
\* the unknown file.
AccessStart_MissRequestsStaging(t, f) ==
    /\ Free(t)
    /\ LET T == [IdleTask EXCEPT !.op = "access", !.file = f, !.t0 = now]
       IN tasks' = [tasks EXCEPT ![t] =
            IF dao[f] = NoRow
            THEN [Log(T, "dao.get_by_id") EXCEPT !.pc = "publish_unstaged"]
            ELSE [Log(T, "dao.get_by_id") EXCEPT !.row = dao[f],
                                                 !.pc = "check_outbox"]]
    /\ UNCHANGED <<dao, outbox, secrets, now, nextObj, everStaged>>

\* Variant of AccessStart that stores the new last_accessed as soon as the
\* record is found.
AccessStart_UpdatesOnLookup(t, f) ==
    /\ Free(t)
    /\ LET T == [IdleTask EXCEPT !.op = "access", !.file = f, !.t0 = now]
       IN IF dao[f] = NoRow
          THEN /\ tasks' = [tasks EXCEPT ![t] =
                     Finish(Log(T, "dao.get_by_id"), "DrsObjectNotFoundError")]
               /\ dao' = dao
          ELSE /\ tasks' = [tasks EXCEPT ![t] =
                     [Log(T, "dao.get_by_id") EXCEPT !.row = dao[f],
                                                     !.pc = "check_outbox"]]
               /\ dao' = [dao EXCEPT ![f].last_accessed = now]
    /\ UNCHANGED <<outbox, secrets, now, nextObj, everStaged>>

\* get_by_id: a miss raises DrsObjectNotFoundError.
AccessStart(t, f) ==
    /\ Free(t)
    /\ LET T == [IdleTask EXCEPT !.op = "access", !.file = f, !.t0 = now]
       IN tasks' = [tasks EXCEPT ![t] =
            IF dao[f] = NoRow
            THEN Finish(Log(T, "dao.get_by_id"), "DrsObjectNotFoundError")
            ELSE [Log(T, "dao.get_by_id") EXCEPT !.row = dao[f],
                                                 !.pc = "check_outbox"]]
    /\ UNCHANGED <<dao, outbox, secrets, now, nextObj, everStaged>>

\* Variant of AccessCheckOutbox that takes the object to be in the outbox
\* without asking the storage.
AccessCheckOutbox_NoCheck(t) ==
    /\ At(t, "check_outbox")
    /\ LET T == tasks[t]
       IN tasks' = [tasks EXCEPT ![t] =
            IF T.row.s3_endpoint_alias \notin ConfiguredAliases
            THEN Finish(T, "KeyError")
            ELSE [Log(T, "s3.does_object_exist") EXCEPT
                     !.inOutbox = IF T.row.object_id \in outbox
                                  THEN "present" ELSE "absent",
                     !.row.last_accessed = now,
                     !.pc = "update"]]
    /\ UNCHANGED <<dao, outbox, secrets, now, nextObj, everStaged>>

\* The storage of the record's alias is resolved and asked whether the
\* object exists; when it does, last_accessed is set to the current time.
AccessCheckOutbox(t) ==
    /\ At(t, "check_outbox")
    /\ LET T == tasks[t]
       IN tasks' = [tasks EXCEPT ![t] =
            IF T.row.s3_endpoint_alias \notin ConfiguredAliases
            THEN Finish(T, "KeyError")
            ELSE IF T.row.object_id \notin outbox
                 THEN [Log(T, "s3.does_object_exist") EXCEPT
                          !.inOutbox = "absent", !.pc = "publish_unstaged"]
                 ELSE [Log(T, "s3.does_object_exist") EXCEPT
                          !.inOutbox = "present", !.row.last_accessed = now,
                          !.pc = "update"]]
    /\ UNCHANGED <<dao, outbox, secrets, now, nextObj, everStaged>>

\* Variant of AccessPublishUnstaged that raises RetryAccessLaterError with
\* the retry time of the HTTP response class instead of the configured one.
AccessPublishUnstaged_ResponseDefault(t, fault) ==
    /\ At(t, "publish_unstaged")
    /\ LET T == tasks[t]
       IN tasks' = [tasks EXCEPT ![t] =
            IF fault THEN Finish(T, "PublishError")
            ELSE [Finish(Log(T, "pub.unstaged_download_requested"),
                         "RetryAccessLaterError")
                     EXCEPT !.retry_after = 300]]
    /\ UNCHANGED <<dao, outbox, secrets, now, nextObj, everStaged>>

\* Variant of AccessPublishUnstaged that publishes one stage request for all
\* the calls that wait to publish one for the same file.
AccessPublishUnstaged_Dedup(t, fault) ==
    /\ At(t, "publish_unstaged")
    /\ LET T == tasks[t]
           covered == \E u \in Tasks :
                         /\ u < t
                         /\ tasks[u].pc = "publish_unstaged"
                         /\ tasks[u].file = T.file
       IN tasks' = [tasks EXCEPT ![t] =
            IF fault THEN Finish(T, "PublishError")
            ELSE [Finish(IF covered THEN T
                         ELSE Log(T, "pub.unstaged_download_requested"),
                         "RetryAccessLaterError")
                     EXCEPT !.retry_after = RetryAccessAfter]]
    /\ UNCHANGED <<dao, outbox, secrets, now, nextObj, everStaged>>

\* Variant of AccessPublishUnstaged in which the service copies the object
\* into the outbox itself instead of leaving that to the staging worker.
AccessPublishUnstaged_StagesObject(t, fault) ==
    /\ At(t, "publish_unstaged")
    /\ LET T == tasks[t]
       IN /\ tasks' = [tasks EXCEPT ![t] =
               IF fault THEN Finish(T, "PublishError")
               ELSE [Finish(Log(T, "pub.unstaged_download_requested"),
                            "RetryAccessLaterError")
                        EXCEPT !.retry_after = RetryAccessAfter]]
          /\ outbox' = IF fault THEN outbox
                       ELSE outbox \cup {T.row.object_id}
          /\ everStaged' = IF fault THEN everStaged
                           ELSE everStaged \cup {T.row.object_id}
    /\ UNCHANGED <<dao, secrets, now, nextObj>>

\* unstaged_download_requested is published, then RetryAccessLaterError raised.
AccessPublishUnstaged(t, fault) ==
    /\ At(t, "publish_unstaged")
    /\ LET T == tasks[t]
       IN tasks' = [tasks EXCEPT ![t] =
            IF fault THEN Finish(T, "PublishError")
            ELSE [Finish(Log(T, "pub.unstaged_download_requested"),
                         "RetryAccessLaterError")
                     EXCEPT !.retry_after = RetryAccessAfter]]
    /\ UNCHANGED <<dao, outbox, secrets, now, nextObj, everStaged>>

\* Variant of AccessUpdate that writes the record back as it was read,
\* without the new last_accessed.
AccessUpdate_StaleTime(t) ==
    /\ At(t, "update")
    /\ LET T == tasks[t]
       IN IF dao[T.file] = NoRow
          THEN /\ tasks' = [tasks EXCEPT ![t] =
                               Finish(T, "DrsObjectNotFoundError")]
               /\ dao' = dao
          ELSE /\ dao' = [dao EXCEPT ![T.file] =
                             [T.row EXCEPT !.last_accessed =
                                               dao[T.file].last_accessed]]
               /\ tasks' = [tasks EXCEPT ![t] =
                     [Log(Log(T, "dao.update"), "s3.get_object_download_url")
                         EXCEPT !.expires_after = PresignedUrlExpiresAfter,
                                !.pc = "publish_served"]]
    /\ UNCHANGED <<outbox, secrets, now, nextObj, everStaged>>

\* Variant of AccessUpdate whose update inserts the record when the row is
\* gone.
AccessUpdate_Upsert(t) ==
    /\ At(t, "update")
    /\ LET T == tasks[t]
       IN /\ dao' = [dao EXCEPT ![T.file] = T.row]
          /\ tasks' = [tasks EXCEPT ![t] =
                [Log(Log(T, "dao.update"), "s3.get_object_download_url")
                    EXCEPT !.expires_after = PresignedUrlExpiresAfter,
                           !.pc = "publish_served"]]
    /\ UNCHANGED <<outbox, secrets, now, nextObj, everStaged>>

\* dao.update writes the whole record read at the start, with the new
\* last_accessed; a vanished row raises DrsObjectNotFoundError. Then
\* _get_access_model requests the presigned download URL.
AccessUpdate(t) ==
    /\ At(t, "update")
    /\ LET T == tasks[t]
       IN IF dao[T.file] = NoRow
          THEN /\ tasks' = [tasks EXCEPT ![t] =
                               Finish(T, "DrsObjectNotFoundError")]
               /\ dao' = dao
          ELSE /\ dao' = [dao EXCEPT ![T.file] = T.row]
               /\ tasks' = [tasks EXCEPT ![t] =
                     [Log(Log(T, "dao.update"), "s3.get_object_download_url")
                         EXCEPT !.expires_after = PresignedUrlExpiresAfter,
                                !.pc = "publish_served"]]
    /\ UNCHANGED <<outbox, secrets, now, nextObj, everStaged>>

\* download_served is published.
AccessPublishServed(t, fault) ==
    /\ At(t, "publish_served")
    /\ LET T == tasks[t]
       IN tasks' = [tasks EXCEPT ![t] =
            IF fault THEN Finish(T, "PublishError")
            ELSE [Log(T, "pub.download_served") EXCEPT !.pc = "get_size"]]
    /\ UNCHANGED <<dao, outbox, secrets, now, nextObj, everStaged>>

\* Variant of AccessGetSize that reports the decrypted_size of the record.
AccessGetSize_DecryptedSize(t) ==
    /\ At(t, "get_size")
    /\ LET T == tasks[t]
       IN tasks' = [tasks EXCEPT ![t] =
            IF T.row.object_id \notin outbox
            THEN Finish(T, "ObjectNotFoundError")
            ELSE Finish([Log(T, "s3.get_object_size") EXCEPT
                            !.size = DecryptedSize(T.file)], "ok")]
    /\ UNCHANGED <<dao, outbox, secrets, now, nextObj, everStaged>>

\* get_object_size of the outbox object; the response model is returned
\* with that size.
AccessGetSize(t) ==
    /\ At(t, "get_size")
    /\ LET T == tasks[t]
       IN tasks' = [tasks EXCEPT ![t] =
            IF T.row.object_id \notin outbox
            THEN Finish(T, "ObjectNotFoundError")
            ELSE Finish([Log(T, "s3.get_object_size") EXCEPT
                            !.size = ObjectSize(T.row.object_id)], "ok")]
    /\ UNCHANGED <<dao, outbox, secrets, now, nextObj, everStaged>>

\* ------------------------------------------------------ register_new_file
\* Variant of RegisterInsert that composes the record without the current
\* time.
RegisterInsert_NoAccessTime(t, f, a) ==
    /\ Free(t)
    /\ nextObj <= MaxObjects
    /\ nextObj' = nextObj + 1
    /\ LET T == [IdleTask EXCEPT !.op = "register", !.file = f,
                                 !.t0 = now,
                                 !.row = [object_id |-> nextObj,
                                          s3_endpoint_alias |-> a,
                                          last_accessed |-> 0]]
       IN IF dao[f] # NoRow
          THEN /\ tasks' = [tasks EXCEPT ![t] =
                               Finish(T, "ResourceAlreadyExistsError")]
               /\ dao' = dao
          ELSE /\ dao' = [dao EXCEPT ![f] = T.row]
               /\ tasks' = [tasks EXCEPT ![t] =
                               [Log(T, "dao.insert") EXCEPT !.pc = "publish_registered"]]
    /\ UNCHANGED <<outbox, secrets, now, everStaged>>

\* Variant of RegisterInsert that gives every record the same object id.
RegisterInsert_ReusesObjectId(t, f, a) ==
    /\ Free(t)
    /\ nextObj <= MaxObjects
    /\ nextObj' = nextObj + 1
    /\ LET T == [IdleTask EXCEPT !.op = "register", !.file = f,
                                 !.t0 = now,
                                 !.row = [object_id |-> 1,
                                          s3_endpoint_alias |-> a,
                                          last_accessed |-> now]]
       IN IF dao[f] # NoRow
          THEN /\ tasks' = [tasks EXCEPT ![t] =
                               Finish(T, "ResourceAlreadyExistsError")]
               /\ dao' = dao
          ELSE /\ dao' = [dao EXCEPT ![f] = T.row]
               /\ tasks' = [tasks EXCEPT ![t] =
                               [Log(T, "dao.insert") EXCEPT !.pc = "publish_registered"]]
    /\ UNCHANGED <<outbox, secrets, now, everStaged>>

\* Variant of RegisterInsert in which the insert replaces a record that is
\* already stored under the file id.
RegisterInsert_Replaces(t, f, a) ==
    /\ Free(t)
    /\ nextObj <= MaxObjects
    /\ nextObj' = nextObj + 1
    /\ LET T == [IdleTask EXCEPT !.op = "register", !.file = f,
                                 !.t0 = now,
                                 !.row = [object_id |-> nextObj,
                                          s3_endpoint_alias |-> a,
                                          last_accessed |-> now]]
       IN /\ dao' = [dao EXCEPT ![f] = T.row]
          /\ tasks' = [tasks EXCEPT ![t] =
                [Log(T, "dao.insert") EXCEPT !.pc = "publish_registered"]]
    /\ UNCHANGED <<outbox, secrets, now, everStaged>>

\* A fresh object id is drawn, the record composed with last_accessed = now
\* and inserted; a duplicate file_id makes the insert fail.
RegisterInsert(t, f, a) ==
    /\ Free(t)
    /\ nextObj <= MaxObjects
    /\ nextObj' = nextObj + 1
    /\ LET T == [IdleTask EXCEPT !.op = "register", !.file = f,
                                 !.t0 = now,
                                 !.row = [object_id |-> nextObj,
                                          s3_endpoint_alias |-> a,
                                          last_accessed |-> now]]
       IN IF dao[f] # NoRow
          THEN /\ tasks' = [tasks EXCEPT ![t] =
                               Finish(T, "ResourceAlreadyExistsError")]
               /\ dao' = dao
          ELSE /\ dao' = [dao EXCEPT ![f] = T.row]
               /\ tasks' = [tasks EXCEPT ![t] =
                               [Log(T, "dao.insert") EXCEPT !.pc = "publish_registered"]]
    /\ UNCHANGED <<outbox, secrets, now, everStaged>>

\* Variant of RegisterPublish that takes the inserted row back when the
\* publication fails.
RegisterPublish_Rollback(t, fault) ==
    /\ At(t, "publish_registered")
    /\ LET T == tasks[t]
       IN IF fault
          THEN /\ tasks' = [tasks EXCEPT ![t] = Finish(T, "PublishError")]
               /\ dao' = [dao EXCEPT ![T.file] = NoRow]
          ELSE /\ tasks' = [tasks EXCEPT ![t] =
                               Finish(Log(T, "pub.file_registered"), "ok")]
               /\ dao' = dao
    /\ UNCHANGED <<outbox, secrets, now, nextObj, everStaged>>

\* file_registered is published.
RegisterPublish(t, fault) ==
    /\ At(t, "publish_registered")
    /\ LET T == tasks[t]
       IN tasks' = [tasks EXCEPT ![t] =
            IF fault THEN Finish(T, "PublishError")
            ELSE Finish(Log(T, "pub.file_registered"), "ok")]
    /\ UNCHANGED <<dao, outbox, secrets, now, nextObj, everStaged>>

\* ------------------------------------------------------------ delete_file
\* Variant of DeleteStart that, on a miss, goes on to announce the deletion.
DeleteStart_MissPublishes(t, f) ==
    /\ Free(t)
    /\ LET T == [IdleTask EXCEPT !.op = "delete", !.file = f]
       IN tasks' = [tasks EXCEPT ![t] =
            IF dao[f] = NoRow
            THEN [Log(T, "dao.get_by_id") EXCEPT !.pc = "publish_deleted"]
            ELSE [Log(T, "dao.get_by_id") EXCEPT !.row = dao[f],
                                                 !.pc = "delete_secret"]]
    /\ UNCHANGED <<dao, outbox, secrets, now, nextObj, everStaged>>

\* Variant of DeleteStart that removes the DAO row first.
DeleteStart_RowFirst(t, f) ==
    /\ Free(t)
    /\ LET T == [IdleTask EXCEPT !.op = "delete", !.file = f]
       IN tasks' = [tasks EXCEPT ![t] =
            IF dao[f] = NoRow
            THEN Finish(Log(T, "dao.get_by_id"), "ok")
            ELSE [Log(T, "dao.get_by_id") EXCEPT !.row = dao[f],
                                                 !.pc = "delete_row"]]
    /\ UNCHANGED <<dao, outbox, secrets, now, nextObj, everStaged>>

\* get_by_id: a miss means the file is already deleted; the call returns.
DeleteStart(t, f) ==
    /\ Free(t)
    /\ LET T == [IdleTask EXCEPT !.op = "delete", !.file = f]
       IN tasks' = [tasks EXCEPT ![t] =
            IF dao[f] = NoRow
            THEN Finish(Log(T, "dao.get_by_id"), "ok")
            ELSE [Log(T, "dao.get_by_id") EXCEPT !.row = dao[f],
                                                 !.pc = "delete_secret"]]
    /\ UNCHANGED <<dao, outbox, secrets, now, nextObj, everStaged>>

\* Variant of DeleteSecret that suppresses every EKSS error.
DeleteSecret_SuppressAll(t, fault) ==
    /\ At(t, "delete_secret")
    /\ LET T == tasks[t]
       IN IF fault
          THEN /\ tasks' = [tasks EXCEPT ![t] =
                     [T EXCEPT !.ekss = "error", !.pc = "delete_object"]]
               /\ secrets' = secrets
          ELSE /\ secrets' = secrets \ {T.file}
               /\ tasks' = [tasks EXCEPT ![t] =
                     [Log(T, "ekss.delete_secret") EXCEPT
                         !.ekss = IF T.file \in secrets THEN "deleted"
                                                        ELSE "not_found",
                         !.pc = "delete_object"]]
    /\ UNCHANGED <<dao, outbox, now, nextObj, everStaged>>

\* Variant of DeleteSecret that lets the not-found answer of EKSS propagate.
DeleteSecret_NotFoundRaises(t, fault) ==
    /\ At(t, "delete_secret")
    /\ LET T == tasks[t]
       IN IF fault
          THEN /\ tasks' = [tasks EXCEPT ![t] =
                     Finish([T EXCEPT !.ekss = "error"], "EkssError")]
               /\ secrets' = secrets
          ELSE IF T.file \notin secrets
          THEN /\ tasks' = [tasks EXCEPT ![t] =
                     Finish([T EXCEPT !.ekss = "not_found"],
                            "SecretNotFoundError")]
               /\ secrets' = secrets
          ELSE /\ secrets' = secrets \ {T.file}
               /\ tasks' = [tasks EXCEPT ![t] =
                     [Log(T, "ekss.delete_secret") EXCEPT
                         !.ekss = "deleted", !.pc = "delete_object"]]
    /\ UNCHANGED <<dao, outbox, now, nextObj, everStaged>>

\* delete_secret_from_ekss: SecretNotFoundError (EKSS answers 404) is
\* suppressed, any other error (BadResponseCodeError, RequestFailedError)
\* propagates.
DeleteSecret(t, fault) ==
    /\ At(t, "delete_secret")
    /\ LET T == tasks[t]
       IN IF fault
          THEN /\ tasks' = [tasks EXCEPT ![t] =
                     Finish([T EXCEPT !.ekss = "error"], "EkssError")]
               /\ secrets' = secrets
          ELSE /\ secrets' = secrets \ {T.file}
               /\ tasks' = [tasks EXCEPT ![t] =
                     [Log(T, "ekss.delete_secret") EXCEPT
                         !.ekss = IF T.file \in secrets THEN "deleted"
                                                        ELSE "not_found",
                         !.pc = "delete_object"]]
    /\ UNCHANGED <<dao, outbox, now, nextObj, everStaged>>

\* Variant of DeleteObject that asks for the object under the file id, which
\* names no outbox object.
DeleteObject_ByFileId(t, fault) ==
    /\ At(t, "delete_object")
    /\ LET T == tasks[t]
       IN tasks' = [tasks EXCEPT ![t] =
            IF T.row.s3_endpoint_alias \notin ConfiguredAliases
            THEN Finish(T, "KeyError")
            ELSE IF fault THEN Finish(T, "ObjectStorageProtocolError")
            ELSE [Log(T, "s3.delete_object") EXCEPT !.pc = "delete_row"]]
    /\ UNCHANGED <<dao, outbox, secrets, now, nextObj, everStaged>>

\* The storage of the record's alias is resolved; delete_object is called,
\* ObjectNotFoundError is suppressed.
DeleteObject(t, fault) ==
    /\ At(t, "delete_object")
    /\ LET T == tasks[t]
       IN IF T.row.s3_endpoint_alias \notin ConfiguredAliases
          THEN /\ tasks' = [tasks EXCEPT ![t] = Finish(T, "KeyError")]
               /\ outbox' = outbox
          ELSE IF fault
          THEN /\ tasks' = [tasks EXCEPT ![t] =
                               Finish(T, "ObjectStorageProtocolError")]
               /\ outbox' = outbox
          ELSE /\ outbox' = outbox \ {T.row.object_id}
               /\ tasks' = [tasks EXCEPT ![t] =
                     [Log(T, "s3.delete_object") EXCEPT !.pc = "delete_row"]]
    /\ UNCHANGED <<dao, secrets, now, nextObj, everStaged>>

\* dao.delete by file_id; a missing row raises ResourceNotFoundError.
DeleteRow(t, fault) ==
    /\ At(t, "delete_row")
    /\ LET T == tasks[t]
       IN IF fault
          THEN /\ tasks' = [tasks EXCEPT ![t] = Finish(T, "DaoError")]
               /\ dao' = dao
          ELSE IF dao[T.file] = NoRow
          THEN /\ tasks' = [tasks EXCEPT ![t] =
                               Finish(T, "ResourceNotFoundError")]
               /\ dao' = dao
          ELSE /\ dao' = [dao EXCEPT ![T.file] = NoRow]
               /\ tasks' = [tasks EXCEPT ![t] =
                     [Log(T, "dao.delete") EXCEPT !.pc = "publish_deleted"]]
    /\ UNCHANGED <<outbox, secrets, now, nextObj, everStaged>>

\* file_deleted is published.
DeletePublish(t, fault) ==
    /\ At(t, "publish_deleted")
    /\ LET T == tasks[t]
       IN tasks' = [tasks EXCEPT ![t] =
            IF fault THEN Finish(T, "PublishError")
            ELSE Finish(Log(T, "pub.file_deleted"), "ok")]
    /\ UNCHANGED <<dao, outbox, secrets, now, nextObj, everStaged>>

\* --------------------------------------------------------- cleanup_outbox
\* The DAO records whose object_id is o (find_one by object_id).
RowsOf(o) == {f \in Files : dao[f] # NoRow /\ dao[f].object_id = o}

\* threshold = now - cache_timeout.
Threshold(t) == t - CacheTimeout

\* Variant of Aged that keeps a record whose last access is exactly at the
\* threshold.
Aged_Strict(last_accessed, threshold) == last_accessed < threshold

\* The record is removed from the outbox when its last access is at or
\* before the threshold.
Aged(last_accessed, threshold) == last_accessed <= threshold

\* The threshold is taken, the storage resolved and the outbox listed.
CleanupStart(t, a) ==
    /\ Free(t)
    /\ LET T == [IdleTask EXCEPT !.op = "cleanup", !.t0 = now,
                                 !.threshold = Threshold(now)]
       IN tasks' = [tasks EXCEPT ![t] =
            IF a \notin ConfiguredAliases THEN Finish(T, "KeyError")
            ELSE IF outbox = {}
                 THEN Finish(Log(T, "s3.list_all_object_ids"), "ok")
                 ELSE [Log(T, "s3.list_all_object_ids") EXCEPT
                          !.listed = outbox, !.todo = outbox, !.pc = "sweep"]]
    /\ UNCHANGED <<dao, outbox, secrets, now, nextObj, everStaged>>

\* The sweep moves on to the next listed object, or ends after the last.
SweepOn(T) ==
    IF T.todo = {} THEN Finish(T, "ok") ELSE [T EXCEPT !.pc = "sweep"]

\* Variant of CleanupLookup that passes over an object without DAO record
\* and goes on with the sweep.
CleanupLookup_SkipsOrphan(t, o) ==
    /\ At(t, "sweep")
    /\ o \in tasks[t].todo
    /\ LET T == [tasks[t] EXCEPT !.todo = @ \ {o}, !.cur = o]
       IN tasks' = [tasks EXCEPT ![t] =
            IF RowsOf(o) = {} THEN SweepOn(T)
            ELSE LET r == dao[CHOOSE f \in RowsOf(o) : TRUE]
                 IN IF Aged(r.last_accessed, T.threshold)
                    THEN [T EXCEPT !.pc = "sweep_delete"]
                    ELSE SweepOn(T)]
    /\ UNCHANGED <<dao, outbox, secrets, now, nextObj, everStaged>>

\* The next listed object is looked up in the DAO by its object_id: a miss
\* raises CleanupError; an aged record is marked for deletion.
CleanupLookup(t, o) ==
    /\ At(t, "sweep")
    /\ o \in tasks[t].todo
    /\ LET T == [tasks[t] EXCEPT !.todo = @ \ {o}, !.cur = o]
       IN tasks' = [tasks EXCEPT ![t] =
            IF RowsOf(o) = {}
            THEN Finish([T EXCEPT !.from_error = "ResourceNotFoundError"],
                        "CleanupError")
            ELSE LET r == dao[CHOOSE f \in RowsOf(o) : TRUE]
                 IN IF Aged(r.last_accessed, T.threshold)
                    THEN [T EXCEPT !.pc = "sweep_delete"]
                    ELSE SweepOn(T)]
    /\ UNCHANGED <<dao, outbox, secrets, now, nextObj, everStaged>>

\* Variant of CleanupDelete that removes the DAO record together with the
\* outbox object.
CleanupDelete_DropsRow(t, fault) ==
    /\ At(t, "sweep_delete")
    /\ LET T == tasks[t]
       IN IF fault \/ T.cur \notin outbox
          THEN /\ tasks' = [tasks EXCEPT ![t] =
                     Finish([T EXCEPT !.from_error =
                                IF fault THEN "ObjectStorageProtocolError"
                                ELSE "ObjectNotFoundError"],
                            "CleanupError")]
               /\ outbox' = outbox
               /\ dao' = dao
          ELSE /\ outbox' = outbox \ {T.cur}
               /\ dao' = [f \in Files |->
                             IF f \in RowsOf(T.cur) THEN NoRow ELSE dao[f]]
               /\ tasks' = [tasks EXCEPT ![t] =
                     SweepOn([Log(T, "s3.delete_object") EXCEPT
                                 !.removed = @ \cup {T.cur}])]
    /\ UNCHANGED <<secrets, now, nextObj, everStaged>>

\* delete_object of the aged object: ObjectError (which ObjectNotFoundError
\* is) and ObjectStorageProtocolError raise CleanupError, which carries the
\* error it was raised from.
CleanupDelete(t, fault) ==
    /\ At(t, "sweep_delete")
    /\ LET T == tasks[t]
       IN IF fault \/ T.cur \notin outbox
          THEN /\ tasks' = [tasks EXCEPT ![t] =
                     Finish([T EXCEPT !.from_error =
                                IF fault THEN "ObjectStorageProtocolError"
                                ELSE "ObjectNotFoundError"],
                            "CleanupError")]
               /\ outbox' = outbox
          ELSE /\ outbox' = outbox \ {T.cur}
               /\ tasks' = [tasks EXCEPT ![t] =
                     SweepOn([Log(T, "s3.delete_object") EXCEPT
                                 !.removed = @ \cup {T.cur}])]
    /\ UNCHANGED <<dao, secrets, now, nextObj, everStaged>>

\* ----------------------------------------------------- run_outbox_cleanup
\* prepare_outbox_cleaner yields the bound method cleanup_outbox, and
\* run_outbox_cleanup awaits that method object without calling it: the await
\* raises TypeError and cleanup_outbox is never entered.
RunOutboxCleanup(t) ==
    /\ Free(t)
    /\ tasks' = [tasks EXCEPT ![t] =
          Finish([IdleTask EXCEPT !.op = "run_outbox_cleanup", !.t0 = now],
                 "TypeError")]
    /\ UNCHANGED <<dao, outbox, secrets, now, nextObj, everStaged>>

\* --------------------------------------------------------- serve_envelope
\* The base64 envelope EKSS holds for a secret and a receiver public key.
EkssEnvelope(secret_id, public_key) ==
    [secret_id |-> secret_id, receiver |-> public_key]

\* What a call of EKSS may come to: an answer of the service, an unexpected
\* response code, or a failed request.
EkssOutcomes == {"answer", "bad_response", "request_failed"}

\* get_envelope_from_ekss: the envelope, or the exception of the call. The
\* decryption_secret_id of a record is modelled by its file id.
GetEnvelopeFromEkss(secret_id, public_key, outcome) ==
    CASE outcome = "bad_response" ->
            [exc |-> "BadResponseCodeError", envelope |-> NoEnvelope]
      [] outcome = "request_failed" ->
            [exc |-> "RequestFailedError", envelope |-> NoEnvelope]
      [] outcome = "answer" /\ secret_id \notin secrets ->
            [exc |-> "SecretNotFoundError", envelope |-> NoEnvelope]
      [] OTHER ->
            [exc |-> "none", envelope |-> EkssEnvelope(secret_id, public_key)]

\* get_by_id: a miss raises DrsObjectNotFoundError.
EnvelopeStart(t, f, k) ==
    /\ Free(t)
    /\ LET T == [IdleTask EXCEPT !.op = "envelope", !.file = f, !.key = k]
       IN tasks' = [tasks EXCEPT ![t] =
            IF dao[f] = NoRow
            THEN Finish(Log(T, "dao.get_by_id"), "DrsObjectNotFoundError")
            ELSE [Log(T, "dao.get_by_id") EXCEPT !.row = dao[f],
                                                 !.pc = "get_envelope"]]
    /\ UNCHANGED <<dao, outbox, secrets, now, nextObj, everStaged>>

\* Variant of EnvelopeFetch that reports a missing secret as a failed
\* communication with EKSS.
EnvelopeFetch_NotFoundAsCommunication(t, outcome) ==
    /\ At(t, "get_envelope")
    /\ LET T == tasks[t]
           r == GetEnvelopeFromEkss(T.file, T.key, outcome)
           U == [Log(T, "ekss.get_envelope") EXCEPT !.ekss = r.exc]
       IN tasks' = [tasks EXCEPT ![t] =
            CASE r.exc \in {"BadResponseCodeError", "RequestFailedError",
                            "SecretNotFoundError"} ->
                    Finish(U, "APICommunicationError")
              [] OTHER -> Finish([U EXCEPT !.envelope = r.envelope], "ok")]
    /\ UNCHANGED <<dao, outbox, secrets, now, nextObj, everStaged>>

\* The envelope is requested from EKSS: BadResponseCodeError and
\* RequestFailedError raise APICommunicationError, SecretNotFoundError raises
\* EnvelopeNotFoundError, otherwise the envelope is returned as received.
EnvelopeFetch(t, outcome) ==
    /\ At(t, "get_envelope")
    /\ LET T == tasks[t]
           r == GetEnvelopeFromEkss(T.file, T.key, outcome)
           U == [Log(T, "ekss.get_envelope") EXCEPT !.ekss = r.exc]
       IN tasks' = [tasks EXCEPT ![t] =
            CASE r.exc \in {"BadResponseCodeError", "RequestFailedError"} ->
                    Finish(U, "APICommunicationError")
              [] r.exc = "SecretNotFoundError" ->
                    Finish(U, "EnvelopeNotFoundError")
              [] OTHER -> Finish([U EXCEPT !.envelope = r.envelope], "ok")]
    /\ UNCHANGED <<dao, outbox, secrets, now, nextObj, everStaged>>

\* ------------------------------------------------------------- REST layer
\* The responses of the REST layer: a status code and, for the custom
\* exceptions, the exception id of the body.
HttpResponse(status, exception_id) ==
    [status |-> status, exception_id |-> exception_id]

HttpObjectNotFoundError == HttpResponse(404, "noSuchObject")
HttpExternalAPIError == HttpResponse(500, "externalAPIError")
HttpDBInteractionError == HttpResponse(500, "dbInteractionError")
HttpEnvelopeNotFoundError == HttpResponse(500, "envelopeNotFoundError")
HttpObjectNotInOutboxResponse == HttpResponse(202, "none")
\* An exception no handler catches: the server answers 500 without a body of
\* the custom exceptions.
InternalServerError == HttpResponse(500, "none")

\* get_drs_object: the result of access_drs_object as the client sees it.
GetDrsObjectResponse(res) ==
    CASE res = "ok" -> HttpResponse(200, "none")
      [] res = "RetryAccessLaterError" -> HttpObjectNotInOutboxResponse
      [] res = "DrsObjectNotFoundError" -> HttpObjectNotFoundError
      [] res \in {"APICommunicationError", "SecretNotFoundError",
                  "UnexpectedAPIResponseError"} -> HttpExternalAPIError
      [] res = "DuplicateEntryError" -> HttpDBInteractionError
      [] OTHER -> InternalServerError

\* Variant of GetEnvelopeResponse that reports every failure of the envelope
\* retrieval as an error of the external API.
GetEnvelopeResponse_AllExternal(res) ==
    CASE res = "ok" -> HttpResponse(200, "none")
      [] res = "DrsObjectNotFoundError" -> HttpObjectNotFoundError
      [] res \in {"EnvelopeNotFoundError", "APICommunicationError"} ->
            HttpExternalAPIError
      [] OTHER -> InternalServerError

\* The envelope endpoint: the result of serve_envelope as the client sees it.
GetEnvelopeResponse(res) ==
    CASE res = "ok" -> HttpResponse(200, "none")
      [] res = "DrsObjectNotFoundError" -> HttpObjectNotFoundError
      [] res = "EnvelopeNotFoundError" -> HttpEnvelopeNotFoundError
      [] res = "APICommunicationError" -> HttpExternalAPIError
      [] OTHER -> InternalServerError

\* ------------------------------------------------------- work order tokens
\* WorkOrderTokenConfig.auth_key: the key the tokens must be signed with.
AuthKey == "auth_key"

\* The Authorization headers a request may carry: none, a string that is no
\* JWS ("unsigned"), or a token signed by the configured or by another key,
\* of type download or upload, for some file id, expired or not.
Tokens ==
    {NoToken} \cup
    [signed_by : {"auth_key", "other_key", "unsigned"},
     type : {"download", "upload"},
     file_id : Files,
     expired : BOOLEAN]

\* Variant of GetValidatedToken that decodes the claims without verifying the
\* signature.
GetValidatedToken_NoSignatureCheck(token, signing_pubkey) ==
    CASE token.signed_by = "unsigned" -> "ValueError"
      [] token.expired -> "JWTExpired"
      [] OTHER -> "ok"

\* get_validated_token: the token is parsed as a JWS, its signature verified
\* with the signing key, then its expiry checked; "ok" stands for the claims.
GetValidatedToken(token, signing_pubkey) ==
    CASE token.signed_by = "unsigned" -> "ValueError"
      [] token.signed_by # signing_pubkey -> "InvalidJWSSignature"
      [] token.expired -> "JWTExpired"
      [] OTHER -> "ok"

\* The public keys get_validated_token may be given to verify with.
SigningKeys == {"auth_key", "other_key"}

\* The strings get_validated_token may be given: a JWS whose signature
\* verifies under one of the keys, a JWS whose payload was altered after
\* signing, so that its signature verifies under no key ("no_key"), and a
\* string without signature part ("unsigned").
TokenStrings ==
    [signed_by : SigningKeys \cup {"no_key", "unsigned"},
     type : {"download", "upload"},
     file_id : Files,
     expired : BOOLEAN]

\* Variant of ValidateToken that reports a string that is no JWS as a
\* signature failure.
ValidateToken_MalformedAsSignature(t, token, signing_pubkey) ==
    /\ At(t, "idle")
    /\ LET T == [IdleTask EXCEPT !.op = "validate", !.token = token,
                                 !.key = signing_pubkey]
           v == GetValidatedToken(token, signing_pubkey)
       IN tasks' = [tasks EXCEPT ![t] =
            Finish(T, IF v = "ValueError" THEN "InvalidJWSSignature" ELSE v)]
    /\ UNCHANGED <<dao, outbox, secrets, now, nextObj, everStaged>>

\* A call of get_validated_token: the claims ("ok") are returned or the
\* exception of jwcrypto propagates.
ValidateToken(t, token, signing_pubkey) ==
    /\ At(t, "idle")
    /\ LET T == [IdleTask EXCEPT !.op = "validate", !.token = token,
                                 !.key = signing_pubkey]
       IN tasks' = [tasks EXCEPT ![t] =
            Finish(T, GetValidatedToken(token, signing_pubkey))]
    /\ UNCHANGED <<dao, outbox, secrets, now, nextObj, everStaged>>

\* Variant of MatchesTypeAndFileId that checks the type only.
MatchesTypeAndFileId_TypeOnly(token, file_id) ==
    IF token.type # "download" THEN "ValueError" ELSE "ok"

\* WorkOrderToken.matches_type_and_file_id: the type must be download and the
\* file id that of the request.
MatchesTypeAndFileId(token, file_id) ==
    IF token.type # "download" THEN "ValueError"
    ELSE IF token.file_id # file_id THEN "ValueError"
    ELSE "ok"

\* The authorization of a request for file_id: "ok", or the id of the 403
\* answer.
Authorize(token, file_id) ==
    IF token = NoToken THEN "notAuthenticated"
    ELSE LET v == GetValidatedToken(token, AuthKey)
         IN CASE v = "InvalidJWSSignature" -> "tokenSignatureError"
              [] v = "JWTExpired" -> "tokenExpiredError"
              [] v = "ValueError" -> "tokenMalformedError"
              [] OTHER ->
                    IF MatchesTypeAndFileId(token, file_id) = "ok"
                    THEN "ok" ELSE "tokenMalformedError"

\* GET /objects/{file_id}: the request is authorized first; only then is
\* access_drs_object called, which starts with get_by_id.
HttpGetDrsObject(t, f, token) ==
    /\ Free(t)
    /\ LET T == [IdleTask EXCEPT !.op = "access", !.file = f, !.t0 = now,
                                 !.token = token,
                                 !.auth = Authorize(token, f)]
       IN tasks' = [tasks EXCEPT ![t] =
            IF T.auth # "ok" THEN Finish(T, "none")
            ELSE IF dao[f] = NoRow
                 THEN Finish(Log(T, "dao.get_by_id"), "DrsObjectNotFoundError")
                 ELSE [Log(T, "dao.get_by_id") EXCEPT !.row = dao[f],
                                                      !.pc = "check_outbox"]]
    /\ UNCHANGED <<dao, outbox, secrets, now, nextObj, everStaged>>

\* The answer to a GET /objects/{file_id} request.
ObjectEndpointResponse(T) ==
    IF T.auth \notin {"none", "ok"} THEN HttpResponse(403, T.auth)
    ELSE GetDrsObjectResponse(T.res)

\* The retry_after of HttpObjectNotInOutboxResponse when none is given.
DefaultRetryAfter == 300

\* str() of a natural number: its decimal digits.
RECURSIVE Str(_)
Str(n) == IF n < 10 THEN <<n>> ELSE Append(Str(n \div 10), n % 10)

\* The headers HttpObjectNotInOutboxResponse sets.
NotInOutboxHeaders(retry_after) == [Retry_After |-> Str(retry_after)]

\* Variant of ObjectEndpointHeaders that constructs the 202 response without
\* the retry_after of the error.
ObjectEndpointHeaders_ClassDefault(T) ==
    IF T.res = "RetryAccessLaterError"
    THEN NotInOutboxHeaders(DefaultRetryAfter)
    ELSE [Retry_After |-> <<>>]

\* The headers of the answer to a GET /objects/{file_id} request: the 202
\* response is constructed with the retry_after of the error.
ObjectEndpointHeaders(T) ==
    IF T.res = "RetryAccessLaterError"
    THEN NotInOutboxHeaders(T.retry_after)
    ELSE [Retry_After |-> <<>>]

\* The content of the answer: the DRS object with its access information,
\* None for the 202 response, the body of the HTTP exception otherwise.
ObjectEndpointContent(T) ==
    CASE T.auth \notin {"none", "ok"} -> "HttpException"
      [] T.res = "ok" -> "DrsObjectWithAccess"
      [] T.res = "RetryAccessLaterError" -> "None"
      [] OTHER -> "HttpException"

\* --------------------------------------------------------- event consumer
\* EventSubTranslatorConfig: the topics and types of the consumed events.
FilesToRegisterTopic == "internal_file_registry"
FilesToRegisterType == "file_registered"
FilesToDeleteTopic == "file_deletions"
FilesToDeleteType == "file_deletion_requested"

\* The topics and the event types on the broker.
Topics == {FilesToRegisterTopic, FilesToDeleteTopic, "other_topic"}
EventTypes == {FilesToRegisterType, FilesToDeleteType, "other_type"}

\* EventSubTranslator.__init__: the topics the subscriber subscribes to and
\* the event types it hands to the translator.
TopicsOfInterest == {FilesToRegisterTopic}
TypesOfInterest == {FilesToRegisterType}

\* Another service publishes an event about file f: it waits in its topic.
PublishEvent(t, topic, type_, f) ==
    /\ Free(t)
    /\ tasks' = [tasks EXCEPT ![t] =
          [IdleTask EXCEPT !.op = "event", !.pc = "in_topic", !.file = f,
                           !.topic = topic, !.type_ = type_]]
    /\ UNCHANGED <<dao, outbox, secrets, now, nextObj, everStaged>>

\* _consume_validated: the method of the Data Repository that an event of
\* the given type is dispatched to, with the file id of its payload.
ConsumeValidated(type_) ==
    IF type_ = FilesToRegisterType THEN "register_new_file"
    ELSE IF type_ = FilesToDeleteType THEN "delete_file"
    ELSE "RuntimeError"

\* The subscriber receives the next event of a topic it has subscribed to;
\* an event whose type is not of interest is skipped, any other is handed to
\* _consume_validated.
ConsumeEvent(t) ==
    /\ tasks[t].pc = "in_topic"
    /\ tasks[t].topic \in TopicsOfInterest
    /\ LET T == tasks[t]
       IN tasks' = [tasks EXCEPT ![t] =
            IF T.type_ \notin TypesOfInterest THEN Finish(T, "skipped")
            ELSE Finish(T, ConsumeValidated(T.type_))]
    /\ UNCHANGED <<dao, outbox, secrets, now, nextObj, everStaged>>

\* ------------------------------------------------------------ next state
\* No call is in flight.
Quiet == \A u \in Tasks : tasks[u].pc = "idle"

\* Task t takes its next step: the awaited call of its position completes,
\* or fails with an error of the service it calls.
Continue(t) ==
    \/ AccessCheckOutbox(t)
    \/ AccessUpdate(t)
    \/ AccessGetSize(t)
    \/ \E o \in ObjectIds : CleanupLookup(t, o)
    \/ \E fault \in BOOLEAN :
        \/ AccessPublishUnstaged(t, fault)
        \/ AccessPublishServed(t, fault)
        \/ RegisterPublish(t, fault)
        \/ DeleteSecret(t, fault)
        \/ DeleteObject(t, fault)
        \/ DeleteRow(t, fault)
        \/ DeletePublish(t, fault)
        \/ CleanupDelete(t, fault)

\* The file id that the concurrent calls are about.
RaceFiles == {"f1"}

\* Requests, consumed events and sweeps run as independent tasks whose
\* awaited calls interleave.
Next ==
    \/ Tick
    \/ \E o \in ObjectIds : StageObject(o)
    \/ \E t \in Tasks, f \in RaceFiles : AccessStart(t, f)
    \/ \E t \in Tasks, f \in RaceFiles, a \in ConfiguredAliases :
           RegisterInsert(t, f, a)
    \/ \E t \in Tasks, f \in RaceFiles : DeleteStart(t, f)
    \/ \E t \in Tasks, a \in ConfiguredAliases : CleanupStart(t, a)
    \/ \E t \in Tasks : Continue(t)
    \/ \E t \in Tasks : Return(t)

Spec == Init /\ [][Next]_vars

\* The steps of access_drs_object, register_new_file and delete_file with the
\* DAO, the storage and EKSS answering without failure; the event publisher
\* may fail under an access.
ContinueRace(t) ==
    \/ AccessCheckOutbox(t)
    \/ AccessUpdate(t)
    \/ AccessGetSize(t)
    \/ \E fault \in BOOLEAN :
        \/ AccessPublishUnstaged(t, fault)
        \/ AccessPublishServed(t, fault)
    \/ RegisterPublish(t, FALSE)
    \/ DeleteSecret(t, FALSE)
    \/ DeleteObject(t, FALSE)
    \/ DeleteRow(t, FALSE)
    \/ DeletePublish(t, FALSE)

\* Requests and consumed events on one file id whose awaited calls
\* interleave, without sweeps.
NextRace ==
    \/ Tick
    \/ \E o \in ObjectIds : StageObject(o)
    \/ \E t \in Tasks, f \in RaceFiles : AccessStart(t, f)
    \/ \E t \in Tasks, f \in RaceFiles, a \in ConfiguredAliases :
           RegisterInsert(t, f, a)
    \/ \E t \in Tasks, f \in RaceFiles : DeleteStart(t, f)
    \/ \E t \in Tasks : ContinueRace(t)
    \/ \E t \in Tasks : Return(t)

SpecRace == Init /\ [][NextRace]_vars

\* One call at a time: a call of any of the five operations runs from its
\* start to its return with no other call and no staging in between.
NextSeq ==
    \/ Tick
    \/ \E o \in ObjectIds : Quiet /\ StageObject(o)
    \/ \E t \in Tasks, f \in Files : Quiet /\ AccessStart(t, f)
    \/ \E t \in Tasks, f \in Files, a \in Aliases :
           Quiet /\ RegisterInsert(t, f, a)
    \/ \E t \in Tasks, f \in Files : Quiet /\ DeleteStart(t, f)
    \/ \E t \in Tasks, a \in Aliases : Quiet /\ CleanupStart(t, a)
    \/ \E t \in Tasks, f \in Files, k \in PublicKeys :
           Quiet /\ EnvelopeStart(t, f, k)
    \/ \E t \in Tasks, outcome \in EkssOutcomes : EnvelopeFetch(t, outcome)
    \/ \E t \in Tasks : Continue(t)
    \/ \E t \in Tasks : Return(t)

SpecSeq == Init /\ [][NextSeq]_vars

\* The steps of the calls that serve the REST endpoints, and of the
\* registrations and deletions that set their scene.
ContinueRest(t) ==
    \/ AccessCheckOutbox(t)
    \/ AccessUpdate(t)
    \/ AccessGetSize(t)
    \/ \E outcome \in EkssOutcomes : EnvelopeFetch(t, outcome)
    \/ \E fault \in BOOLEAN :
        \/ AccessPublishUnstaged(t, fault)
        \/ AccessPublishServed(t, fault)
        \/ RegisterPublish(t, fault)
        \/ DeleteSecret(t, fault)
        \/ DeleteObject(t, fault)
        \/ DeleteRow(t, fault)
        \/ DeletePublish(t, fault)

\* The REST endpoints, one request at a time, between registrations,
\* stagings and deletions.
NextRest ==
    \/ \E o \in ObjectIds : Quiet /\ StageObject(o)
    \/ \E t \in Tasks, f \in Files, a \in Aliases :
           Quiet /\ RegisterInsert(t, f, a)
    \/ \E t \in Tasks, f \in Files : Quiet /\ DeleteStart(t, f)
    \/ \E t \in Tasks, f \in Files, token \in Tokens :
           Quiet /\ HttpGetDrsObject(t, f, token)
    \/ \E t \in Tasks, f \in Files, k \in PublicKeys :
           Quiet /\ EnvelopeStart(t, f, k)
    \/ \E t \in Tasks : ContinueRest(t)
    \/ \E t \in Tasks : Return(t)

SpecRest == Init /\ [][NextRest]_vars

\* get_validated_token called on every string with every key.
NextToken ==
    \/ \E t \in Tasks, token \in TokenStrings, k \in SigningKeys :
           ValidateToken(t, token, k)
    \/ \E t \in Tasks : Return(t)

SpecToken == Init /\ [][NextToken]_vars

\* Events are published to the topics of the broker and consumed by the
\* event subscriber.
NextEvents ==
    \/ \E t \in Tasks, topic \in Topics, type_ \in EventTypes, f \in Files :
           PublishEvent(t, topic, type_, f)
    \/ \E t \in Tasks : ConsumeEvent(t)
    \/ \E t \in Tasks : Return(t)

\* The subscriber runs forever: an event it can receive is received, and a
\* handled event is acknowledged.
SpecEvents ==
    /\ Init /\ [][NextEvents]_vars
    /\ \A t \in Tasks : WF_vars(ConsumeEvent(t)) /\ WF_vars(Return(t))

\* The steps of access_drs_object and register_new_file.
ContinueCleaner(t) ==
    \/ AccessCheckOutbox(t)
    \/ AccessUpdate(t)
    \/ AccessGetSize(t)
    \/ \E fault \in BOOLEAN :
        \/ AccessPublishUnstaged(t, fault)
        \/ AccessPublishServed(t, fault)
        \/ RegisterPublish(t, fault)

\* The outbox cleanup task, run between registrations, stagings and
\* accesses, one call at a time.
NextCleaner ==
    \/ Tick
    \/ \E o \in ObjectIds : Quiet /\ StageObject(o)
    \/ \E t \in Tasks, f \in Files : Quiet /\ AccessStart(t, f)
    \/ \E t \in Tasks, f \in Files, a \in ConfiguredAliases :
           Quiet /\ RegisterInsert(t, f, a)
    \/ \E t \in Tasks : Quiet /\ RunOutboxCleanup(t)
    \/ \E t \in Tasks : ContinueCleaner(t)
    \/ \E t \in Tasks : Return(t)

SpecCleaner == Init /\ [][NextCleaner]_vars

\* Registration events of the same file ids consumed concurrently, with
\* accesses in between and no deletion: a registered file stays registered.
NextRegister ==
    \/ Tick
    \/ \E o \in ObjectIds : StageObject(o)
    \/ \E t \in Tasks, f \in Files, a \in ConfiguredAliases :
           RegisterInsert(t, f, a)
    \/ \E t \in Tasks : RegisterPublish(t, FALSE)
    \/ \E t \in Tasks, f \in Files : AccessStart(t, f)
    \/ \E t \in Tasks : AccessCheckOutbox(t)
    \/ \E t \in Tasks : AccessPublishUnstaged(t, FALSE)
    \/ \E t \in Tasks : AccessUpdate(t)
    \/ \E t \in Tasks : AccessPublishServed(t, FALSE)
    \/ \E t \in Tasks : AccessGetSize(t)
    \/ \E t \in Tasks : Return(t)

SpecRegister == Init /\ [][NextRegister]_vars

\* A client that retries its access, a staging worker that stages what was
\* registered, and sweeps that keep running, one call at a time on one file
\* id that is registered and never deleted; no dependency fails.
ClientAccess == \E t \in Tasks, f \in RaceFiles : Quiet /\ AccessStart(t, f)

StagingWorker ==
    \E o \in ObjectIds : Quiet /\ RowsOf(o) # {} /\ StageObject(o)

Sweep ==
    \E t \in Tasks, a \in ConfiguredAliases : Quiet /\ CleanupStart(t, a)

ContinueLive(t) ==
    \/ RegisterPublish(t, FALSE)
    \/ AccessCheckOutbox(t)
    \/ AccessPublishUnstaged(t, FALSE)
    \/ AccessUpdate(t)
    \/ AccessPublishServed(t, FALSE)
    \/ AccessGetSize(t)
    \/ \E o \in ObjectIds : CleanupLookup(t, o)
    \/ CleanupDelete(t, FALSE)

NextLive ==
    \/ Tick
    \/ \E t \in Tasks, f \in RaceFiles, a \in ConfiguredAliases :
           Quiet /\ RegisterInsert(t, f, a)
    \/ ClientAccess
    \/ StagingWorker
    \/ Sweep
    \/ \E t \in Tasks : ContinueLive(t)
    \/ \E t \in Tasks : Return(t)

\* Time passes and every call that was started runs to its return; the client
\* accesses, the worker stages and a sweep starts again and again.
SpecLive ==
    /\ Init /\ [][NextLive]_vars
    /\ WF_vars(Tick)
    /\ \A t \in Tasks : WF_vars(ContinueLive(t)) /\ WF_vars(Return(t))
    /\ SF_vars(ClientAccess) /\ SF_vars(StagingWorker) /\ SF_vars(Sweep)

\* ------------------------------------------------------------- properties
\* The names of the calls a task has completed, in order.
CallNames(T) == [i \in 1..Len(T.calls) |-> T.calls[i].call]

\* The events a task has published, in order.
Published(T) ==
    SelectSeq(T.calls, LAMBDA c : c.call \in
        {"pub.unstaged_download_requested", "pub.download_served",
         "pub.file_registered", "pub.file_deleted"})

\* The single event of the given type for the task's file.
OneEvent(T, type) == <<[call |-> type, file_id |-> T.file]>>

\* C1: an access_drs_object call that found its object absent from the outbox
\* has published exactly one unstaged_download_requested event, no
\* download_served event, and raised RetryAccessLaterError with retry_after =
\* config.retry_access_after (unless the event publisher itself failed, in
\* which case that error is raised and nothing was published).
C1_AbsentAccessRequestsStagingAndRetries ==
    \A t \in Tasks :
        LET T == tasks[t]
        IN (T.op = "access" /\ T.pc = "done" /\ T.inOutbox = "absent") =>
              \/ /\ T.res = "RetryAccessLaterError"
                 /\ T.retry_after = RetryAccessAfter
                 /\ Published(T) = OneEvent(T, "pub.unstaged_download_requested")
                 /\ CallNames(T) = <<"dao.get_by_id", "s3.does_object_exist",
                                     "pub.unstaged_download_requested">>
              \/ /\ T.res = "PublishError"
                 /\ Published(T) = <<>>

\* C1 witness: an access to a registered, unstaged file has raised
\* RetryAccessLaterError.
C1_Witness ==
    \E t \in Tasks :
        /\ tasks[t].op = "access" /\ tasks[t].pc = "done"
        /\ tasks[t].inOutbox = "absent"
        /\ tasks[t].res = "RetryAccessLaterError"
        /\ dao[tasks[t].file] # NoRow

\* C2: an access_drs_object call on a registered file whose object was never
\* put into the outbox neither succeeds nor raises DrsObjectNotFoundError; with
\* the record's storage alias configured it raises RetryAccessLaterError (or
\* the event publisher's own error).
C2_UnstagedAccessAlwaysRetries ==
    \A t \in Tasks :
        LET T == tasks[t]
        IN (/\ T.op = "access" /\ T.pc = "done"
            /\ T.row # NoRow
            /\ T.row.object_id \notin everStaged) =>
              /\ T.res \notin {"ok", "DrsObjectNotFoundError"}
              /\ T.row.s3_endpoint_alias \in ConfiguredAliases =>
                    T.res \in {"RetryAccessLaterError", "PublishError"}
              /\ T.res = "RetryAccessLaterError" =>
                    Published(T) = OneEvent(T, "pub.unstaged_download_requested")

\* C2 witness: f1 is registered and was never staged, an access to it has
\* raised RetryAccessLaterError, while the other file was registered and staged.
C2_Witness ==
    \E t \in Tasks :
        /\ tasks[t].op = "access" /\ tasks[t].pc = "done"
        /\ tasks[t].file = "f1"
        /\ tasks[t].res = "RetryAccessLaterError"
        /\ tasks[t].row.object_id \notin everStaged
        /\ dao["f2"] # NoRow /\ dao["f2"].object_id \in outbox

\* C3: when access_drs_object has returned successfully, the stored
\* last_accessed of the file is at or after the instant the call started.
C3_AccessBumpsLastAccessed ==
    \A t \in Tasks :
        LET T == tasks[t]
        IN (T.op = "access" /\ T.pc = "done" /\ T.res = "ok") =>
              /\ dao[T.file] # NoRow
              /\ dao[T.file].last_accessed >= T.t0

\* C3 witness: a successful access that started after the clock had advanced
\* past the registration instant.
C3_Witness ==
    \E t \in Tasks :
        /\ tasks[t].op = "access" /\ tasks[t].pc = "done"
        /\ tasks[t].res = "ok"
        /\ tasks[t].t0 = MaxTime
        /\ dao[tasks[t].file].last_accessed = MaxTime

\* C4: while the DAO row of a file exists, no step makes its stored
\* last_accessed smaller.
C4_LastAccessedNeverDecreases ==
    [][\A f \in Files :
          (dao[f] # NoRow /\ dao'[f] # NoRow) =>
              dao'[f].last_accessed >= dao[f].last_accessed]_vars

\* C5: a delete_file call for a file id without a DAO row returns at once and
\* without error, having made no call but the lookup, and changes neither the
\* DAO nor the outbox nor the secrets, and publishes nothing.
C5_DeleteUnknownIsNoOp ==
    [][\A t \in Tasks :
          (/\ tasks[t].pc = "idle"
           /\ tasks'[t].op = "delete"
           /\ dao[tasks'[t].file] = NoRow) =>
              /\ tasks'[t].pc = "done"
              /\ tasks'[t].res = "ok"
              /\ CallNames(tasks'[t]) = <<"dao.get_by_id">>
              /\ Published(tasks'[t]) = <<>>
              /\ UNCHANGED <<dao, outbox, secrets>>]_vars

\* C5 witness: delete_file has returned for an unknown file id while another
\* file is registered, staged and has its secret.
C5_Witness ==
    \E t \in Tasks :
        /\ tasks[t].op = "delete" /\ tasks[t].pc = "done"
        /\ tasks[t].row = NoRow /\ tasks[t].res = "ok"
        /\ \E g \in Files \ {tasks[t].file} :
              dao[g] # NoRow /\ dao[g].object_id \in outbox /\ g \in secrets

\* C6: when delete_file has returned successfully for a registered file, the
\* file has no DAO row, its object is not in the outbox, its secret was asked
\* to be deleted and is gone, and exactly one file_deleted event with its file
\* id was published.
C6_DeleteRemovesEverything ==
    \A t \in Tasks :
        LET T == tasks[t]
        IN (T.op = "delete" /\ T.pc = "done" /\ T.res = "ok" /\ T.row # NoRow) =>
              /\ dao[T.file] = NoRow
              /\ T.row.object_id \notin outbox
              /\ T.file \notin secrets
              /\ T.ekss \in {"deleted", "not_found"}
              /\ \E i \in 1..Len(T.calls) : T.calls[i].call = "ekss.delete_secret"
              /\ Published(T) = OneEvent(T, "pub.file_deleted")

\* C6 witness: a successful delete_file of a file whose object had been staged
\* and whose secret no longer existed.
C6_Witness ==
    \E t \in Tasks :
        /\ tasks[t].op = "delete" /\ tasks[t].pc = "done"
        /\ tasks[t].res = "ok"
        /\ tasks[t].ekss = "not_found"
        /\ tasks[t].row.object_id \in everStaged

\* The outbox objects a sweep that started at instant t0 has to remove: those
\* whose DAO record was last accessed at or before t0 - cache_timeout.
Expired(listed, t0) ==
    {o \in listed :
        \E f \in RowsOf(o) : dao[f].last_accessed <= t0 - CacheTimeout}

\* C7, the outbox: a sweep that has completed without error has removed
\* exactly the listed objects that were expired, and the rest is still there.
C7_SweepRemovedExpired ==
    \A t \in Tasks :
        LET T == tasks[t]
        IN (T.op = "cleanup" /\ T.pc = "done" /\ T.res = "ok") =>
              /\ T.removed = Expired(T.listed, T.t0)
              /\ outbox = T.listed \ T.removed

\* C7: a cleanup_outbox sweep run on its own removes exactly the outbox
\* objects whose record has last_accessed <= now - cache_timeout, keeps the
\* others, and no step of it changes a DAO row.
C7_CleanupRemovesExactlyExpired ==
    /\ []C7_SweepRemovedExpired
    /\ [][\A t \in Tasks :
             (tasks'[t].op = "cleanup" /\ tasks'[t] # tasks[t]) => dao' = dao]_vars

\* C7 witness: a completed sweep that removed an object last accessed exactly
\* at the threshold and kept a younger one, both records still in the DAO.
C7_Witness ==
    \E t \in Tasks :
        /\ tasks[t].op = "cleanup" /\ tasks[t].pc = "done"
        /\ tasks[t].res = "ok"
        /\ \E o \in tasks[t].removed : \E f \in RowsOf(o) :
              dao[f].last_accessed = tasks[t].t0 - CacheTimeout
        /\ \E o \in tasks[t].listed \ tasks[t].removed : \E f \in RowsOf(o) :
              dao[f].last_accessed > tasks[t].t0 - CacheTimeout

\* C8: once a delete_file call on a registered file has terminated, however
\* it ended, the file is fully present (DAO row and secret) or fully absent
\* (no DAO row, no secret, no outbox object): it is never left with its
\* secret deleted while its DAO row remains.
C8_DeleteNeverLeavesRowWithoutSecret ==
    \A t \in Tasks :
        LET T == tasks[t]
        IN (T.op = "delete" /\ T.pc = "done" /\ T.ekss = "deleted") =>
              \/ dao[T.file] # NoRow /\ T.file \in secrets
              \/ /\ dao[T.file] = NoRow
                 /\ T.file \notin secrets
                 /\ T.row.object_id \notin outbox

\* C9: in delete_file, an EKSS error other than not-found ends the call with
\* that error before any outbox, DAO or publish call and with the DAO row
\* retained; a not-found answer is suppressed and the call goes on to the
\* outbox and DAO steps.
C9_OnlySecretNotFoundIsSuppressed ==
    \A t \in Tasks :
        LET T == tasks[t]
        IN T.op = "delete" =>
              /\ T.ekss = "error" =>
                    /\ T.pc = "done" /\ T.res = "EkssError"
                    /\ CallNames(T) = <<"dao.get_by_id">>
                    /\ dao[T.file] = T.row
              /\ T.ekss = "not_found" =>
                    /\ T.pc \in {"delete_object", "delete_row",
                                 "publish_deleted", "done"}
                    /\ T.res \notin {"EkssError", "SecretNotFoundError"}
                    /\ SubSeq(CallNames(T), 1, 2) =
                          <<"dao.get_by_id", "ekss.delete_secret">>
                    /\ (T.pc = "done" /\ T.res = "ok") =>
                          /\ dao[T.file] = NoRow
                          /\ CallNames(T) =
                                <<"dao.get_by_id", "ekss.delete_secret",
                                  "s3.delete_object", "dao.delete",
                                  "pub.file_deleted">>

\* C9 witness: delete_file of a registered and staged file has failed with an
\* EKSS error; the row and the object are still there.
C9_Witness ==
    \E t \in Tasks :
        /\ tasks[t].op = "delete" /\ tasks[t].pc = "done"
        /\ tasks[t].ekss = "error"
        /\ dao[tasks[t].file] # NoRow
        /\ tasks[t].row.object_id \in outbox

\* The order of the calls of delete_file.
DeleteOrder ==
    <<"dao.get_by_id", "ekss.delete_secret", "s3.delete_object", "dao.delete",
      "pub.file_deleted">>

\* C10: the calls of every delete_file execution are a prefix of: lookup,
\* secret deletion, outbox deletion, DAO deletion, file_deleted; a DAO row is
\* removed only by a call that has done the secret and the outbox deletion,
\* with the secret and the object gone; file_deleted is published only once
\* the row is gone.
C10_DeleteStepsInOrder ==
    [][/\ \A t \in Tasks :
             tasks'[t].op = "delete" =>
                /\ \E n \in 0..Len(DeleteOrder) :
                      CallNames(tasks'[t]) = SubSeq(DeleteOrder, 1, n)
                /\ Len(Published(tasks'[t])) > Len(Published(tasks[t])) =>
                      dao[tasks'[t].file] = NoRow
       /\ \A f \in Files :
             (dao[f] # NoRow /\ dao'[f] = NoRow) =>
                /\ f \notin secrets
                /\ dao[f].object_id \notin outbox
                /\ \E t \in Tasks :
                      /\ tasks[t].op = "delete" /\ tasks[t].file = f
                      /\ CallNames(tasks[t]) = SubSeq(DeleteOrder, 1, 3)]_vars

\* C10 witness: a delete_file call of a staged file has made all five calls.
C10_Witness ==
    \E t \in Tasks :
        /\ tasks[t].op = "delete" /\ tasks[t].pc = "done"
        /\ CallNames(tasks[t]) = DeleteOrder
        /\ tasks[t].ekss = "deleted"
        /\ tasks[t].row.object_id \in everStaged

\* A delete_file call that found the secret of its file already gone: an
\* earlier delete_file of the file got at least as far as the secret deletion.
Reinvoked(T) ==
    T.op = "delete" /\ T.file \notin secrets /\ T.ekss # "deleted"

\* The lookups of delete_file that may answer not-found.
NotFoundErrors ==
    {"SecretNotFoundError", "ObjectNotFoundError", "ResourceNotFoundError"}

\* C11: a delete_file call re-invoked after an earlier delete_file of the same
\* file (that succeeded, or failed after the secret, the object or the row was
\* removed) raises no not-found error, and when it returns the file is fully
\* absent: no DAO row, no secret, no outbox object, as after one successful
\* delete_file.
C11_DeleteIsIdempotent ==
    \A t \in Tasks :
        LET T == tasks[t]
        IN Reinvoked(T) =>
              /\ T.res \notin NotFoundErrors
              /\ (T.pc = "done" /\ T.res = "ok") =>
                    /\ dao[T.file] = NoRow
                    /\ T.file \notin secrets
                    /\ T.row # NoRow => T.row.object_id \notin outbox

\* C11 witness: a delete_file re-invoked on a file whose row is still there
\* while its secret and its once staged object are gone has gone through all
\* its steps and returned.
C11_Witness ==
    \E t \in Tasks :
        /\ Reinvoked(tasks[t])
        /\ tasks[t].pc = "done" /\ tasks[t].res = "ok"
        /\ tasks[t].ekss = "not_found"
        /\ CallNames(tasks[t]) = DeleteOrder
        /\ tasks[t].row.object_id \in everStaged
        /\ dao[tasks[t].file] = NoRow

\* C12: when the DAO row of the file is gone at the moment access_drs_object
\* updates last_accessed (a concurrent delete_file removed it after the
\* call's get_by_id), the call ends with DrsObjectNotFoundError, has
\* requested no download URL, has published no event, and the update leaves
\* the DAO as it is: the row is not re-created.
C12_UpdateLosesToDelete ==
    [][\A t \in Tasks :
          (/\ tasks[t].op = "access" /\ tasks[t].pc = "update"
           /\ tasks'[t] # tasks[t]
           /\ dao[tasks[t].file] = NoRow) =>
              /\ tasks'[t].pc = "done"
              /\ tasks'[t].res = "DrsObjectNotFoundError"
              /\ Published(tasks'[t]) = <<>>
              /\ \A i \in 1..Len(tasks'[t].calls) :
                    tasks'[t].calls[i].call \notin
                        {"dao.update", "s3.get_object_download_url"}
              /\ dao' = dao]_vars

\* C12 witness: an access that had read the row and seen the object in the
\* outbox has ended with DrsObjectNotFoundError, the row being gone.
C12_Witness ==
    \E t \in Tasks :
        /\ tasks[t].op = "access" /\ tasks[t].pc = "done"
        /\ tasks[t].row # NoRow /\ tasks[t].inOutbox = "present"
        /\ tasks[t].res = "DrsObjectNotFoundError"
        /\ dao[tasks[t].file] = NoRow

\* An access_drs_object call on a registered file whose object has never been
\* in the outbox.
UnstagedAccess(T) ==
    T.op = "access" /\ T.row # NoRow /\ T.row.object_id \notin everStaged

\* C13, the outcome: each of the concurrent access_drs_object calls on a
\* registered, unstaged file raises RetryAccessLaterError having published one
\* unstaged_download_requested event of its own (or raises the publisher's
\* error).
C13_EachCallRetries ==
    \A t \in Tasks :
        LET T == tasks[t]
        IN (UnstagedAccess(T) /\ T.pc = "done") =>
              \/ /\ T.res = "RetryAccessLaterError"
                 /\ Published(T) = OneEvent(T, "pub.unstaged_download_requested")
              \/ /\ T.res = "PublishError"
                 /\ Published(T) = <<>>

\* C13: concurrent access_drs_object calls on the same registered, unstaged
\* file all raise RetryAccessLaterError, publish one
\* unstaged_download_requested event per call, and no step of any of them
\* changes the DAO.
C13_ConcurrentUnstagedAccesses ==
    /\ []C13_EachCallRetries
    /\ [][\A t \in Tasks :
             (UnstagedAccess(tasks'[t]) /\ tasks'[t] # tasks[t]) =>
                 dao' = dao]_vars

\* C13 witness: one access to the unstaged file has raised
\* RetryAccessLaterError while a second access to the same file, started
\* before the first ended, is about to publish its own stage request.
C13_Witness ==
    \E t, u \in Tasks :
        /\ t # u
        /\ UnstagedAccess(tasks[t]) /\ UnstagedAccess(tasks[u])
        /\ tasks[t].file = tasks[u].file
        /\ tasks[t].pc = "done" /\ tasks[t].res = "RetryAccessLaterError"
        /\ tasks[u].pc = "publish_unstaged"

\* C14: register_new_file and delete_file change the DAO before they publish
\* their event, and a failed publication propagates with the change kept:
\* after a failed file_registered the inserted row is in the DAO, after a
\* failed file_deleted the row is gone.
C14_PublishIsLastAndNotRolledBack ==
    \A t \in Tasks :
        LET T == tasks[t]
        IN /\ T.op = "register" =>
                /\ CallNames(T) \in {<<>>, <<"dao.insert">>,
                                     <<"dao.insert", "pub.file_registered">>}
                /\ (T.pc = "done" /\ T.res = "PublishError") =>
                      /\ CallNames(T) = <<"dao.insert">>
                      /\ dao[T.file] = T.row
           /\ T.op = "delete" =>
                /\ \A i \in 1..Len(T.calls) :
                      T.calls[i].call = "pub.file_deleted" =>
                          i > 1 /\ T.calls[i - 1].call = "dao.delete"
                /\ (T.pc = "done" /\ T.res = "PublishError") =>
                      /\ CallNames(T) = SubSeq(DeleteOrder, 1, 4)
                      /\ dao[T.file] = NoRow

\* C14 witness: the file_deleted publication of a delete_file call on a
\* registered file has failed; the error is the call's result and the row is
\* gone.
C14_Witness ==
    \E t \in Tasks :
        /\ tasks[t].op = "delete" /\ tasks[t].pc = "done"
        /\ tasks[t].res = "PublishError"
        /\ tasks[t].row # NoRow
        /\ dao[tasks[t].file] = NoRow

\* C15: access_drs_object on a file id without a DAO row ends at once with
\* DrsObjectNotFoundError (404 noSuchObject for the client), having made no
\* call but the lookup: the outbox is not asked, nothing is published, and
\* DAO, outbox and secrets are unchanged.
C15_AccessUnknownIsNotFound ==
    [][\A t \in Tasks :
          (/\ tasks[t].pc = "idle"
           /\ tasks'[t].op = "access"
           /\ dao[tasks'[t].file] = NoRow) =>
              /\ tasks'[t].pc = "done"
              /\ tasks'[t].res = "DrsObjectNotFoundError"
              /\ GetDrsObjectResponse(tasks'[t].res) = HttpObjectNotFoundError
              /\ HttpObjectNotFoundError.status = 404
              /\ CallNames(tasks'[t]) = <<"dao.get_by_id">>
              /\ Published(tasks'[t]) = <<>>
              /\ tasks'[t].inOutbox = "unchecked"
              /\ UNCHANGED <<dao, outbox, secrets>>]_vars

\* C15 witness: an access to an unknown file id has ended with
\* DrsObjectNotFoundError while another file is registered and staged.
C15_Witness ==
    \E t \in Tasks :
        /\ tasks[t].op = "access" /\ tasks[t].pc = "done"
        /\ tasks[t].row = NoRow
        /\ tasks[t].res = "DrsObjectNotFoundError"
        /\ \E g \in Files \ {tasks[t].file} :
              dao[g] # NoRow /\ dao[g].object_id \in outbox

\* C16: an access_drs_object or delete_file call on a registered file whose
\* storage alias is not configured fails, at the resolution of the alias,
\* with StorageAliasNotConfiguredError (status 500 for the client of the
\* access endpoint), has published nothing and has left the DAO row as it was.
C16_UnconfiguredAliasIsReported ==
    \A t \in Tasks :
        LET T == tasks[t]
        IN (/\ T.op \in {"access", "delete"} /\ T.pc = "done"
            /\ T.row # NoRow
            /\ T.row.s3_endpoint_alias \notin ConfiguredAliases
            /\ T.op = "delete" => T.ekss \in {"deleted", "not_found"}) =>
              /\ T.res = "StorageAliasNotConfiguredError"
              /\ T.op = "access" => GetDrsObjectResponse(T.res).status = 500
              /\ Published(T) = <<>>
              /\ dao[T.file] = T.row

\* C17: serve_envelope comes to exactly one result for each outcome: without
\* a DAO row DrsObjectNotFoundError and no EKSS call; BadResponseCodeError or
\* RequestFailedError of EKSS gives APICommunicationError;
\* SecretNotFoundError gives EnvelopeNotFoundError; otherwise the result is
\* the very envelope EKSS holds for the record's secret and the given key.
C17_ServeEnvelopeOutcomes ==
    \A t \in Tasks :
        LET T == tasks[t]
        IN (T.op = "envelope" /\ T.pc = "done") =>
              /\ T.row = NoRow <=> T.res = "DrsObjectNotFoundError"
              /\ T.row = NoRow =>
                    /\ CallNames(T) = <<"dao.get_by_id">>
                    /\ T.ekss = "none" /\ T.envelope = NoEnvelope
              /\ T.row # NoRow =>
                    /\ CallNames(T) = <<"dao.get_by_id", "ekss.get_envelope">>
                    /\ T.ekss \in {"BadResponseCodeError", "RequestFailedError"}
                          <=> T.res = "APICommunicationError"
                    /\ T.ekss = "SecretNotFoundError"
                          <=> T.res = "EnvelopeNotFoundError"
                    /\ T.ekss = "none" <=> T.res = "ok"
                    /\ T.res = "ok" <=>
                          T.envelope = EkssEnvelope(T.file, T.key)
                    /\ T.res # "ok" => T.envelope = NoEnvelope

\* C17 witness: serve_envelope for a registered file whose secret is gone has
\* ended with EnvelopeNotFoundError.
C17_Witness ==
    \E t \in Tasks :
        /\ tasks[t].op = "envelope" /\ tasks[t].pc = "done"
        /\ tasks[t].row # NoRow
        /\ tasks[t].file \notin secrets
        /\ tasks[t].res = "EnvelopeNotFoundError"

C21_ValidatedTokenOutcomes ==
    \A t \in Tasks :
        LET T == tasks[t]
            wellFormed == T.token.signed_by # "unsigned"
            verifies == T.token.signed_by = T.key
        IN (T.op = "validate" /\ T.pc = "done") =>
              /\ T.res \in {"ok", "InvalidJWSSignature", "JWTExpired",
                             "ValueError"}
              /\ T.res = "ok" <=>
                    (wellFormed /\ verifies /\ ~T.token.expired)
              /\ T.res = "InvalidJWSSignature" <=> (wellFormed /\ ~verifies)
              /\ T.res = "JWTExpired" <=>
                    (wellFormed /\ verifies /\ T.token.expired)
              /\ T.res = "ValueError" <=> ~wellFormed

\* C21 witness: a token whose payload was altered after it was signed has
\* been refused with InvalidJWSSignature.
C21_Witness ==
    \E t \in Tasks :
        /\ tasks[t].op = "validate" /\ tasks[t].pc = "done"
        /\ tasks[t].token.signed_by = "no_key"
        /\ tasks[t].key = AuthKey
        /\ tasks[t].res = "InvalidJWSSignature"

AccessOrder ==
    <<"dao.get_by_id", "s3.does_object_exist", "dao.update",
      "s3.get_object_download_url", "pub.download_served",
      "s3.get_object_size">>

\* C23: an access_drs_object call on a registered file whose object is in the
\* outbox succeeds, having published exactly one download_served event,
\* requested the download URL with lifetime presigned_url_expires_after and
\* reported the size of the outbox object, not the decrypted_size of the
\* record (unless the event publisher itself failed, in which case that
\* error is raised and nothing was published).
C23_StagedAccessIsServed ==
    \A t \in Tasks :
        LET T == tasks[t]
        IN (T.op = "access" /\ T.pc = "done" /\ T.inOutbox = "present") =>
              \/ /\ T.res = "ok"
                 /\ CallNames(T) = AccessOrder
                 /\ Published(T) = OneEvent(T, "pub.download_served")
                 /\ T.expires_after = PresignedUrlExpiresAfter
                 /\ T.size = ObjectSize(T.row.object_id)
                 /\ T.size # DecryptedSize(T.file)
              \/ /\ T.res = "PublishError"
                 /\ Published(T) = <<>>

\* C23 witness: an access to a registered and staged file has returned its
\* response model.
C23_Witness ==
    \E t \in Tasks :
        /\ tasks[t].op = "access" /\ tasks[t].pc = "done"
        /\ tasks[t].res = "ok"
        /\ tasks[t].row.object_id \in outbox
        /\ tasks[t].size = ObjectSize(tasks[t].row.object_id)

\* C24, the outcome: a register_new_file call that has returned has made the
\* insert and then the publication, of exactly one file_registered event for
\* its file id, and the row is the one it composed at the registration
\* instant.
C24_RegisteredRow ==
    \A t \in Tasks :
        LET T == tasks[t]
        IN (T.op = "register" /\ T.pc = "done" /\ T.res = "ok") =>
              /\ CallNames(T) = <<"dao.insert", "pub.file_registered">>
              /\ Published(T) = OneEvent(T, "pub.file_registered")
              /\ dao[T.file] = T.row
              /\ T.row.last_accessed = T.t0

\* C24: a successful register_new_file for a new file id inserts exactly one
\* DAO row for it, with an object id never drawn before and last_accessed
\* set to the current instant, before it publishes anything, and then
\* publishes exactly one file_registered event for that file id.
C24_RegisterInsertsThenPublishes ==
    /\ []C24_RegisteredRow
    /\ [][\A f \in Files :
             (dao[f] = NoRow /\ dao'[f] # NoRow) =>
                /\ \A g \in Files \ {f} : dao'[g] = dao[g]
                /\ dao'[f].object_id >= nextObj
                /\ nextObj' > dao'[f].object_id
                /\ \A g \in Files \ {f} :
                      dao[g] # NoRow => dao[g].object_id # dao'[f].object_id
                /\ dao'[f].last_accessed = now
                /\ \E t \in Tasks :
                      /\ tasks[t].pc = "idle"
                      /\ tasks'[t].op = "register" /\ tasks'[t].file = f
                      /\ tasks'[t].row = dao'[f]
                      /\ Published(tasks'[t]) = <<>>]_vars

\* C24 witness: a register_new_file call made after the clock had advanced
\* has returned, another file being registered already.
C24_Witness ==
    \E t \in Tasks :
        /\ tasks[t].op = "register" /\ tasks[t].pc = "done"
        /\ tasks[t].res = "ok"
        /\ tasks[t].t0 = MaxTime
        /\ dao[tasks[t].file].last_accessed = MaxTime
        /\ \E g \in Files \ {tasks[t].file} : dao[g] # NoRow

\* C25: a register_new_file call for a file id that already has a DAO row
\* ends with DuplicateEntryError, leaves the DAO as it is and publishes no
\* file_registered event.
C25_DuplicateIsReported ==
    [][\A t \in Tasks :
          (/\ tasks[t].pc = "idle"
           /\ tasks'[t].op = "register"
           /\ dao[tasks'[t].file] # NoRow) =>
              /\ tasks'[t].pc = "done"
              /\ tasks'[t].res = "DuplicateEntryError"
              /\ dao' = dao
              /\ Published(tasks'[t]) = <<>>]_vars

\* An event of the given type waits in the given topic, in slot t.
Waiting(t, topic, type_) ==
    /\ tasks[t].op = "event" /\ tasks[t].pc = "in_topic"
    /\ tasks[t].topic = topic /\ tasks[t].type_ = type_

\* The event of slot t has been dispatched to the given method.
Dispatched(t, method) ==
    /\ tasks[t].op = "event" /\ tasks[t].pc = "done"
    /\ tasks[t].res = method

\* The registration half of C26: every FileInternallyRegistered event on
\* files_to_register_topic is eventually dispatched to register_new_file with
\* its file id.
RegisterEventsAreDispatched ==
    \A t \in Tasks, f \in Files :
        (Waiting(t, FilesToRegisterTopic, FilesToRegisterType)
            /\ tasks[t].file = f)
        ~> (Dispatched(t, "register_new_file") /\ tasks[t].file = f)

\* C26: every FileDeletionRequested event published on files_to_delete_topic
\* with type files_to_delete_type is eventually consumed and dispatched to
\* delete_file with its file id, as every FileInternallyRegistered event on
\* files_to_register_topic is to register_new_file.
C26_DeletionEventsAreDispatched ==
    /\ RegisterEventsAreDispatched
    /\ \A t \in Tasks, f \in Files :
          (Waiting(t, FilesToDeleteTopic, FilesToDeleteType)
              /\ tasks[t].file = f)
          ~> (Dispatched(t, "delete_file") /\ tasks[t].file = f)

\* C27, the access: an access_drs_object call on a registered file whose
\* object was once staged and is no longer in the outbox raises
\* RetryAccessLaterError having published one unstaged_download_requested
\* event (or raises the publisher's error), never DrsObjectNotFoundError.
C27_AccessAfterSweepRetries ==
    \A t \in Tasks :
        LET T == tasks[t]
        IN (/\ T.op = "access" /\ T.pc = "done"
            /\ T.row # NoRow
            /\ T.row.object_id \in everStaged
            /\ T.inOutbox = "absent") =>
              \/ /\ T.res = "RetryAccessLaterError"
                 /\ Published(T) = OneEvent(T, "pub.unstaged_download_requested")
              \/ /\ T.res = "PublishError"
                 /\ Published(T) = <<>>

\* C27: a cleanup sweep that removes the outbox object of a registered file
\* leaves the file's DAO row in place, and the next access_drs_object on the
\* file raises RetryAccessLaterError and publishes an
\* unstaged_download_requested event, so that the file is staged again.
C27_SweptFileCanBeRestaged ==
    /\ []C27_AccessAfterSweepRetries
    /\ [][\A t \in Tasks :
             (tasks[t].op = "cleanup" /\ outbox' # outbox) =>
                /\ dao' = dao
                /\ \A o \in outbox \ outbox' :
                      \E f \in Files : dao'[f] # NoRow /\ dao'[f].object_id = o]_vars

\* C27 witness: an access to a file whose object was staged and then removed
\* by a sweep (its secret and its row are still there) has raised
\* RetryAccessLaterError.
C27_Witness ==
    \E t \in Tasks :
        /\ tasks[t].op = "access" /\ tasks[t].pc = "done"
        /\ tasks[t].res = "RetryAccessLaterError"
        /\ tasks[t].row.object_id \in everStaged \ outbox
        /\ tasks[t].file \in secrets
        /\ dao[tasks[t].file] = tasks[t].row
        /\ tasks[t].row.last_accessed <= tasks[t].t0 - CacheTimeout

\* C28: when a run of the outbox cleanup task has ended, it has ended without
\* error and no object whose record was last accessed at or before
\* now - cache_timeout (now being the start of the run) is left in the outbox.
C28_CleanupRunSweeps ==
    \A t \in Tasks :
        LET T == tasks[t]
        IN (T.op = "run_outbox_cleanup" /\ T.pc = "done") =>
              /\ T.res = "ok"
              /\ Expired(outbox, T.t0) = {}

\* The positions of the given call in the record of a task.
CallsAt(T, call) == {i \in 1..Len(T.calls) : T.calls[i].call = call}

\* C29, the order within a call: dao.update is made only after
\* does_object_exist has answered true, download_served is published only
\* after the call's dao.update, and a call that has not seen the object in
\* the outbox has made no dao.update.
C29_UpdateBetweenCheckAndServed ==
    \A t \in Tasks :
        LET T == tasks[t]
        IN T.op = "access" =>
              /\ \A i \in CallsAt(T, "dao.update") :
                    /\ T.inOutbox = "present"
                    /\ \E j \in CallsAt(T, "s3.does_object_exist") : j < i
              /\ \A i \in CallsAt(T, "pub.download_served") :
                    \E j \in CallsAt(T, "dao.update") : j < i
              /\ T.inOutbox # "present" => CallsAt(T, "dao.update") = {}

\* C29: in every access_drs_object execution the stored last_accessed is
\* changed only by the update step, which comes after the presence check has
\* answered true and before download_served is published; no step of a call
\* that has not seen the object in the outbox changes the DAO; and
\* download_served is never published by a call that has not made its update.
C29_LastAccessedAppliedInOrder ==
    /\ []C29_UpdateBetweenCheckAndServed
    /\ [][/\ \A f \in Files :
               (/\ dao[f] # NoRow /\ dao'[f] # NoRow
                /\ dao'[f].last_accessed # dao[f].last_accessed) =>
                   \E t \in Tasks :
                      /\ tasks[t].op = "access" /\ tasks[t].file = f
                      /\ tasks[t].pc = "update"
                      /\ tasks[t].inOutbox = "present"
                      /\ Published(tasks[t]) = <<>>
                      /\ CallsAt(tasks'[t], "dao.update") # {}
          /\ \A t \in Tasks :
               (/\ tasks'[t].op = "access" /\ tasks'[t] # tasks[t]
                /\ tasks'[t].inOutbox # "present") => dao' = dao]_vars

\* C29 witness: an access has stored a later last_accessed and then failed to
\* publish download_served: the update is kept, nothing was published.
C29_Witness ==
    \E t \in Tasks :
        /\ tasks[t].op = "access" /\ tasks[t].pc = "done"
        /\ tasks[t].res = "PublishError"
        /\ tasks[t].inOutbox = "present"
        /\ CallsAt(tasks[t], "dao.update") # {}
        /\ Published(tasks[t]) = <<>>
        /\ dao[tasks[t].file].last_accessed > 0

\* C30, the outcome: a sweep that has ended at a listed object without DAO
\* record (cur, the object the CleanupError names) has not deleted that
\* object, has left every object later in the listing in the outbox, and the
\* objects it had removed before stay removed.
C30_AbortedSweep ==
    \A t \in Tasks :
        LET T == tasks[t]
        IN (/\ T.op = "cleanup" /\ T.pc = "done"
            /\ T.cur # 0 /\ RowsOf(T.cur) = {}) =>
              /\ T.res = "CleanupError"
              /\ T.cur \in T.listed /\ T.cur \in outbox
              /\ T.cur \notin T.removed
              /\ T.todo \subseteq outbox
              /\ T.removed \cap outbox = {}
              /\ outbox = T.listed \ T.removed
              /\ Len(T.calls) = 1 + Cardinality(T.removed)

\* C30: when a cleanup_outbox sweep looks up a listed object that has no DAO
\* record, that step ends the sweep with CleanupError for that object and
\* deletes nothing; the objects later in the listing are neither examined
\* nor deleted, and the deletions made earlier in the sweep are kept.
C30_OrphanAbortsTheSweep ==
    /\ []C30_AbortedSweep
    /\ [][\A t \in Tasks :
             (/\ tasks[t].op = "cleanup" /\ tasks[t].pc = "sweep"
              /\ tasks'[t] # tasks[t]
              /\ RowsOf(tasks'[t].cur) = {}) =>
                 /\ tasks'[t].pc = "done"
                 /\ tasks'[t].res = "CleanupError"
                 /\ tasks'[t].removed = tasks[t].removed
                 /\ outbox' = outbox]_vars

\* C30 witness: a sweep has ended at an object without DAO record while an
\* expired object, later in the listing, is still in the outbox.
C30_Witness ==
    \E t \in Tasks :
        /\ tasks[t].op = "cleanup" /\ tasks[t].pc = "done"
        /\ tasks[t].res = "CleanupError"
        /\ RowsOf(tasks[t].cur) = {}
        /\ tasks[t].cur \in outbox
        /\ Expired(tasks[t].todo, tasks[t].t0) # {}

\* C31: a sweep never ends with a CleanupError raised from the
\* ObjectNotFoundError of delete_object: an aged object that is already gone
\* counts as removed and the sweep goes on; only another storage error
\* raises CleanupError.
C31_GoneObjectIsNoCleanupError ==
    \A t \in Tasks :
        LET T == tasks[t]
        IN (T.op = "cleanup" /\ T.res = "CleanupError") =>
              T.from_error # "ObjectNotFoundError"

\* The DAO rows, as the (file_id, record) pairs of the collection.
Rows == {<<f, dao[f]>> : f \in {g \in Files : dao[g] # NoRow}}

\* C32, the state: the rows of the DAO have pairwise different file ids, and
\* two rows with the same s3_endpoint_alias have different object ids; every
\* stored object id is one that register_new_file has drawn.
C32_RowsAreUnique ==
    \A r1, r2 \in Rows :
        /\ r1[1] = r2[1] => r1 = r2
        /\ (r1 # r2 /\ r1[2].s3_endpoint_alias = r2[2].s3_endpoint_alias) =>
              r1[2].object_id # r2[2].object_id
        /\ r1[2].object_id \in 1..(nextObj - 1)

\* C32: in every reachable state the DAO holds at most one row per file id
\* and no two rows of one alias share an object id, and every registration,
\* also the re-registration of a deleted file id, inserts an object id that
\* no registration has received before.
C32_UniqueFileAndObjectIds ==
    /\ []C32_RowsAreUnique
    /\ [][\A f \in Files :
             (dao[f] = NoRow /\ dao'[f] # NoRow) =>
                /\ dao'[f].object_id >= nextObj
                /\ nextObj' > dao'[f].object_id]_vars

\* C32 witness: a file id that was registered, staged and deleted is
\* registered again, with an object id other than the one it had.
C32_Witness ==
    \E f \in Files :
        /\ dao[f] # NoRow
        /\ \E o \in everStaged \ outbox : o < dao[f].object_id
        /\ \A g \in Files \ {f} : dao[g] = NoRow

\* C33: a DAO row comes into existence only by the insert of a
\* register_new_file call for its file id and ceases to exist only by the
\* delete of a delete_file call for it; no step of access_drs_object,
\* serve_envelope or cleanup_outbox creates or removes a row; and an object
\* is added to the outbox only by the staging worker, in a step that is no
\* step of a call.
C33_StateMachineIsClosed ==
    [][/\ \A f \in Files :
            /\ (dao[f] = NoRow /\ dao'[f] # NoRow) =>
                  \E t \in Tasks :
                     /\ tasks[t].pc = "idle"
                     /\ tasks'[t].op = "register" /\ tasks'[t].file = f
                     /\ CallNames(tasks'[t]) = <<"dao.insert">>
            /\ (dao[f] # NoRow /\ dao'[f] = NoRow) =>
                  \E t \in Tasks :
                     /\ tasks[t].op = "delete" /\ tasks[t].file = f
                     /\ tasks[t].pc = "delete_row"
                     /\ tasks'[t] # tasks[t]
       /\ \A t \in Tasks :
            (/\ tasks'[t] # tasks[t]
             /\ tasks'[t].op \in {"access", "envelope", "cleanup"}) =>
                /\ \A f \in Files : (dao[f] = NoRow) <=> (dao'[f] = NoRow)
                /\ outbox' \subseteq outbox
       /\ ~(outbox' \subseteq outbox) => tasks' = tasks]_vars

\* C33 witness: serve_envelope has returned the envelope of a registered
\* file whose object a sweep has removed from the outbox; the row is there.
C33_Witness ==
    \E t \in Tasks :
        /\ tasks[t].op = "envelope" /\ tasks[t].pc = "done"
        /\ tasks[t].res = "ok"
        /\ dao[tasks[t].file] = tasks[t].row
        /\ tasks[t].row.object_id \in everStaged \ outbox

\* C34: delete_file calls for the same registered file id that run
\* concurrently, with the DAO, the storage and EKSS answering without
\* failure, all end without raising an error.
C34_ConcurrentDeletesBothSucceed ==
    \A t \in Tasks :
        (tasks[t].op = "delete" /\ tasks[t].pc = "done") =>
            tasks[t].res = "ok"

\* C35: a sweep removes an outbox object only while the last_accessed of its
\* DAO record, read in the state in which the object is removed, is at or
\* before the threshold of that sweep.
C35_SweepSparesBumpedObject ==
    [][\A t \in Tasks :
          (/\ tasks[t].op = "cleanup" /\ tasks[t].pc = "sweep_delete"
           /\ tasks'[t] # tasks[t]
           /\ tasks[t].cur \in outbox \ outbox') =>
              \A f \in RowsOf(tasks[t].cur) :
                  Aged(dao[f].last_accessed, tasks[t].threshold)]_vars

\* C36: a sweep raises CleanupError from a DAO lookup miss only in a state
\* in which the object it looked up is in the outbox.
C36_LookupMissMeansOrphan ==
    [][\A t \in Tasks :
          (/\ tasks[t].op = "cleanup" /\ tasks[t].pc = "sweep"
           /\ tasks'[t].pc = "done"
           /\ tasks'[t].res = "CleanupError"
           /\ tasks'[t].from_error = "ResourceNotFoundError") =>
              /\ tasks'[t].cur \in outbox
              /\ RowsOf(tasks'[t].cur) = {}]_vars

\* C37: an access_drs_object call that has published download_served
\* returns a response to its caller.
C37_ServedEventMeansResponse ==
    \A t \in Tasks :
        (/\ tasks[t].op = "access" /\ tasks[t].pc = "done"
         /\ \E i \in 1..Len(tasks[t].calls) :
               tasks[t].calls[i].call = "pub.download_served") =>
            tasks[t].res = "ok"

\* C39: the dao.update of an access_drs_object call changes no field of the
\* stored record other than last_accessed.
C39_AccessChangesOnlyLastAccessed ==
    [][\A t \in Tasks :
          (/\ tasks[t].op = "access" /\ tasks[t].pc = "update"
           /\ tasks'[t] # tasks[t]
           /\ dao[tasks[t].file] # NoRow) =>
              dao'[tasks[t].file] =
                 [dao[tasks[t].file] EXCEPT
                     !.last_accessed = dao'[tasks[t].file].last_accessed]]_vars

\* The register_new_file calls that have inserted their record.
Inserted(T) ==
    /\ T.op = "register"
    /\ \E i \in 1..Len(T.calls) : T.calls[i].call = "dao.insert"

\* C40: of register_new_file calls for the same file id that run
\* concurrently while no deletion takes place, the one that finds the file
\* id free inserts its record and no other does; the call that inserted ends with exactly one file_registered
\* event, published for the object id and alias of the record that is
\* stored under the file id; a call that finds the file id taken fails in
\* its insert, leaves the stored record as it is and publishes nothing.
C40_OneRegistrationWins ==
    /\ [](\A t \in Tasks :
            /\ \A u \in Tasks \ {t} :
                  (Inserted(tasks[t]) /\ Inserted(tasks[u])) =>
                      tasks[t].file # tasks[u].file
            /\ Inserted(tasks[t]) =>
                  /\ dao[tasks[t].file] # NoRow
                  /\ dao[tasks[t].file].object_id = tasks[t].row.object_id
                  /\ dao[tasks[t].file].s3_endpoint_alias =
                        tasks[t].row.s3_endpoint_alias
            /\ (Inserted(tasks[t]) /\ tasks[t].pc = "done") =>
                  /\ tasks[t].res = "ok"
                  /\ Published(tasks[t]) =
                        OneEvent(tasks[t], "pub.file_registered")
            /\ (tasks[t].op = "register" /\ ~Inserted(tasks[t])) =>
                  /\ tasks[t].pc = "done"
                  /\ tasks[t].res = "ResourceAlreadyExistsError"
                  /\ tasks[t].calls = <<>>)
    /\ [][/\ \A t \in Tasks, f \in Files :
            (/\ tasks[t].pc = "idle" /\ tasks'[t].op = "register"
             /\ tasks'[t].file = f /\ dao[f] # NoRow) =>
                /\ dao' = dao
                /\ ~Inserted(tasks'[t])
         /\ \A t \in Tasks, f \in Files :
            (/\ tasks[t].pc = "idle" /\ tasks'[t].op = "register"
             /\ tasks'[t].file = f /\ dao[f] = NoRow) =>
                /\ dao'[f] = tasks'[t].row
                /\ Inserted(tasks'[t])]_vars

\* C40 witness: a registration of a file id has failed in its insert while
\* the registration that inserted the stored record has not yet published.
C40_Witness ==
    \E t \in Tasks, u \in Tasks :
        /\ tasks[t].op = "register" /\ tasks[t].pc = "publish_registered"
        /\ tasks[u].op = "register" /\ tasks[u].pc = "done"
        /\ tasks[u].file = tasks[t].file
        /\ tasks[u].res = "ResourceAlreadyExistsError"
        /\ dao[tasks[t].file].object_id = tasks[t].row.object_id

\* C38: for a registered file that is never deleted, with a client that
\* keeps retrying, a staging worker that keeps staging and sweeps that keep
\* running, some access_drs_object call eventually returns a response.
C38_RetriedAccessEventuallySucceeds ==
    (\E f \in RaceFiles : dao[f] # NoRow) ~>
        (\E t \in Tasks : /\ tasks[t].op = "access"
                          /\ tasks[t].pc = "done"
                          /\ tasks[t].res = "ok")

====
